---------------------------- MODULE Spec2Model ----------------------------
(***************************************************************************)
(* A model of scripts/build_data.py, the CSV-to-JSON build of the Isotype  *)
(* explorer: the field normalizers, build_works, build_figures and main.   *)
(*                                                                         *)
(* A Python str is a sequence of one-character strings, so that strip,     *)
(* lower, the regular expressions and the lexicographic sort are computed  *)
(* character by character.  None is the empty tuple and a present optional *)
(* value x is the one-element tuple <<x>>.                                 *)
(***************************************************************************)
EXTENDS Integers, Sequences, FiniteSets, TLC

VARIABLES
    pc,           \* position in main(), or "call"/"ret" of a single function call
    works_csv,    \* the works CSV file: Missing, or File(rows)
    figures_csv,  \* the figures CSV file: Missing, or File(rows)
    works_rows,   \* main's works_rows
    fig_rows,     \* main's fig_rows
    works,        \* main's works
    works_by_id,  \* main's works_by_id
    figures,      \* main's figures
    stdout,       \* the lines printed so far
    stderr,       \* the message of SystemExit, if any
    out_files,    \* the output folder: works.json and figures.json
    exit_code,    \* None while running, then <<0>> or <<1>>
    call,         \* a single function call: [fn, arg]
    ret,          \* its return value
    side_file,    \* the side file (ocr.json or descriptions.json): None, or <<dict>>
    images,       \* the figure ids for which a view image is found
    existing,     \* a side process's existing
    updated,      \* a side process's updated
    processed,    \* a side process's processed
    todo,         \* the figure ids its loop has yet to visit
    invoked       \* the figure ids the external tool was run for, in this run

vars == <<pc, works_csv, figures_csv, works_rows, fig_rows, works, works_by_id,
          figures, stdout, stderr, out_files, exit_code, call, ret,
          side_file, images, existing, updated, processed, todo, invoked>>

None == <<>>
Some(x) == <<x>>

\* The variables of the side processes, and their values where none runs
side_vars == <<side_file, images, existing, updated, processed, todo, invoked>>
SideIdle ==
    /\ side_file = None /\ images = {}
    /\ existing = <<>> /\ updated = <<>> /\ processed = 0 /\ todo = <<>> /\ invoked = <<>>

\* A local variable of the code is bound to its value as the one element of a
\* set, {body : x \in {value}}, and The picks the element of that set: the
\* value is computed once, however often the body uses it.
The(S) == CHOOSE x \in S : TRUE
\* A CSV file: absent, or present with the rows csv.DictReader yields from it
Missing == [exists |-> FALSE, rows |-> <<>>]
File(rows) == [exists |-> TRUE, rows |-> rows]

(***************************************************************************)
(* Characters.                                                             *)
(***************************************************************************)
LowerLetters == <<"a", "b", "c", "d", "e", "f", "g", "h", "i", "j", "k", "l", "m",
                  "n", "o", "p", "q", "r", "s", "t", "u", "v", "w", "x", "y", "z">>
UpperLetters == <<"A", "B", "C", "D", "E", "F", "G", "H", "I", "J", "K", "L", "M",
                  "N", "O", "P", "Q", "R", "S", "T", "U", "V", "W", "X", "Y", "Z">>
DigitChars == <<"0", "1", "2", "3", "4", "5", "6", "7", "8", "9">>
\* The other characters of the model's inputs, each with its code point.
OtherChars == << <<"\t", 9>>, <<"\n", 10>>, <<" ", 32>>, <<"&", 38>>, <<"'", 39>>,
                 <<",", 44>>, <<"-", 45>>, <<".", 46>>, <<"/", 47>>, <<":", 58>>,
                 <<";", 59>>, <<"=", 61>>, <<"_", 95>> >>

Range(s) == {s[k] : k \in DOMAIN s}
IndexOf(s, c) == CHOOSE k \in DOMAIN s : s[k] = c

IsLower(c) == c \in Range(LowerLetters)
IsUpper(c) == c \in Range(UpperLetters)
IsDigit(c) == c \in Range(DigitChars)
\* str.strip() and \s: the whitespace characters
IsSpace(c) == c \in {" ", "\t", "\n"}

\* ord(c)
Ord(c) ==
    IF IsDigit(c) THEN 47 + IndexOf(DigitChars, c)
    ELSE IF IsUpper(c) THEN 64 + IndexOf(UpperLetters, c)
    ELSE IF IsLower(c) THEN 96 + IndexOf(LowerLetters, c)
    ELSE OtherChars[CHOOSE k \in DOMAIN OtherChars : OtherChars[k][1] = c][2]

\* int(c) of one digit
DigitVal(c) == IndexOf(DigitChars, c) - 1

\* c.lower()
LowerChar(c) == IF IsUpper(c) THEN LowerLetters[IndexOf(UpperLetters, c)] ELSE c

(***************************************************************************)
(* str operations.                                                         *)
(***************************************************************************)
\* s.lower()
Lower(s) == [k \in DOMAIN s |-> LowerChar(s[k])]

\* s.strip()
Strip(s) ==
    LET keep == {k \in DOMAIN s : ~IsSpace(s[k])}
    IN  IF keep = {} THEN <<>>
        ELSE LET lo == CHOOSE k \in keep : \A j \in keep : k <= j
                 hi == CHOOSE k \in keep : \A j \in keep : j <= k
             IN  SubSeq(s, lo, hi)

\* s.strip(c) for one character c
StripChar(s, c) ==
    LET keep == {k \in DOMAIN s : s[k] # c}
    IN  IF keep = {} THEN <<>>
        ELSE LET lo == CHOOSE k \in keep : \A j \in keep : k <= j
                 hi == CHOOSE k \in keep : \A j \in keep : j <= k
             IN  SubSeq(s, lo, hi)

\* The characters of s that satisfy Keep, in order: re.sub of a one-character
\* class by "", and s.replace(c, "").

\* s.endswith(t)
EndsWith(s, t) ==
    /\ Len(t) <= Len(s)
    /\ SubSeq(s, Len(s) - Len(t) + 1, Len(s)) = t

\* a < b and a <= b on str: by code point, a proper prefix first
RECURSIVE StrLess(_, _)
StrLess(a, b) ==
    IF b = <<>> THEN FALSE
    ELSE IF a = <<>> THEN TRUE
    ELSE IF Ord(a[1]) # Ord(b[1]) THEN Ord(a[1]) < Ord(b[1])
    ELSE StrLess(Tail(a), Tail(b))

\* s.zfill(width) of a string without a sign
RECURSIVE zfill(_, _)
zfill(s, width) == IF Len(s) >= width THEN s ELSE zfill(<<"0">> \o s, width)

\* int(s) of a string of digits
RECURSIVE DigitsValue(_)
DigitsValue(s) ==
    IF s = <<>> THEN 0
    ELSE 10 * DigitsValue(SubSeq(s, 1, Len(s) - 1)) + DigitVal(s[Len(s)])

AllDigits(s) == \A k \in DOMAIN s : IsDigit(s[k])

(***************************************************************************)
(* helpers                                                                 *)
(***************************************************************************)
\* clean_cell on a str (None is the empty tuple, and gives "")
clean_cell(v) == Strip(v)

\* parse_int keeping a minus sign only at the head of what is left
parse_int_leading_sign(s0) ==
    LET s1 == clean_cell(s0)
        IsDigitOrMinus(c) == IsDigit(c) \/ c = "-"
        s2 == SelectSeq(s1, IsDigitOrMinus)
        digits == SelectSeq(s2, IsDigit)
    IN  IF s1 = <<>> \/ s2 = <<>> \/ digits = <<>> THEN None
        ELSE IF s2[1] = "-" THEN Some(0 - DigitsValue(digits))
        ELSE Some(DigitsValue(digits))

\* parse_int: None, or <<n>>
parse_int(s0) ==
    LET s1 == clean_cell(s0)
        IsDigitOrMinus(c) == IsDigit(c) \/ c = "-"
        s2 == SelectSeq(s1, IsDigitOrMinus)
    IN  IF s1 = <<>> THEN None
        ELSE IF s2 = <<>> THEN None
        \* int(s): an optional sign, then digits; anything else raises
        \* ValueError, which is caught
        ELSE IF AllDigits(s2) THEN Some(DigitsValue(s2))
        ELSE IF s2[1] = "-" /\ Len(s2) > 1 /\ AllDigits(Tail(s2))
             THEN Some(0 - DigitsValue(Tail(s2)))
        ELSE None

\* re.sub(r"[^a-z0-9]+", "-", s): each maximal run of characters other than
\* a-z and 0-9 becomes one "-"
IsSlugChar(c) == IsLower(c) \/ IsDigit(c)
RECURSIVE SubNonSlugRuns(_)
SubNonSlugRuns(s) ==
    IF s = <<>> THEN <<>>
    ELSE IF IsSlugChar(s[1]) THEN <<s[1]>> \o SubNonSlugRuns(Tail(s))
    ELSE IF Len(s) > 1 /\ ~IsSlugChar(s[2]) THEN SubNonSlugRuns(Tail(s))
    ELSE <<"-">> \o SubNonSlugRuns(Tail(s))

\* re.sub(r"-+", "-", s)
RECURSIVE SubDashRuns(_)
SubDashRuns(s) ==
    IF s = <<>> THEN <<>>
    ELSE IF s[1] = "-" /\ Len(s) > 1 /\ s[2] = "-" THEN SubDashRuns(Tail(s))
    ELSE <<s[1]>> \o SubDashRuns(Tail(s))

\* s.replace(old, new) for one character old
RECURSIVE ReplaceChar(_, _, _)
ReplaceChar(s, old, new) ==
    IF s = <<>> THEN <<>>
    ELSE (IF s[1] = old THEN new ELSE <<s[1]>>) \o ReplaceChar(Tail(s), old, new)

slugify(s0) ==
    LET s1 == Lower(clean_cell(s0))
        s2 == ReplaceChar(s1, "&", <<" ", "a", "n", "d", " ">>)
        s3 == SubNonSlugRuns(s2)
    IN  StripChar(SubDashRuns(s3), "-")

WorkIdWidth == 4

\* normalize_work_id with the zfill of the w<digits> branch left out
normalize_work_id_nopad(raw0) ==
    LET NotBlank(c) == c # " "
        raw == SelectSeq(Lower(clean_cell(raw0)), NotBlank)
    IN  IF raw = <<>> THEN <<>>
        ELSE IF raw[1] = "w" /\ Len(raw) > 1 /\ AllDigits(Tail(raw))
             THEN raw
        ELSE IF AllDigits(raw) THEN <<"w">> \o zfill(raw, WorkIdWidth)
        ELSE raw

\* normalize_work_id.  After clean_cell the string neither starts nor ends
\* with whitespace, so "$" (which also matches before a final newline) is
\* the end of the string here.
normalize_work_id(raw0) ==
    LET NotBlank(c) == c # " "
        raw == SelectSeq(Lower(clean_cell(raw0)), NotBlank)
    IN  IF raw = <<>> THEN <<>>
        ELSE IF raw[1] = "w" /\ Len(raw) > 1 /\ AllDigits(Tail(raw))
             THEN <<"w">> \o zfill(Tail(raw), WorkIdWidth)
        ELSE IF AllDigits(raw) THEN <<"w">> \o zfill(raw, WorkIdWidth)
        ELSE raw

\* The image extensions of normalize_figure_id's pattern
ImageExtensions == {<<"p", "n", "g">>, <<"w", "e", "b", "p">>, <<"j", "p", "g">>,
                    <<"j", "p", "e", "g">>, <<"t", "i", "f">>, <<"t", "i", "f", "f">>}

\* re.sub(r"\.(png|webp|jpg|jpeg|tif|tiff)$", "", raw, flags=re.I) on a string
\* that does not end in a newline: the pattern is anchored at the end, so
\* at most one match, the last extension, is removed.
SubImageExtension(raw) ==
    IF \E e \in ImageExtensions : EndsWith(Lower(raw), <<".">> \o e)
    THEN LET e == CHOOSE x \in ImageExtensions : EndsWith(Lower(raw), <<".">> \o x)
         IN  SubSeq(raw, 1, Len(raw) - Len(e) - 1)
    ELSE raw

\* normalize_figure_id with the extension removed after lowercasing only
\* when it is written in lower case
normalize_figure_id_case(raw0) ==
    LET raw == Strip(clean_cell(raw0))
    IN  IF \E e \in ImageExtensions : EndsWith(raw, <<".">> \o e)
        THEN Lower(SubImageExtension(raw))
        ELSE Lower(raw)

normalize_figure_id(raw0) ==
    LET raw == Strip(clean_cell(raw0))
    IN  Lower(SubImageExtension(raw))

\* get_first(row, *keys, default=""): keys is the tuple of the aliases in
\* their norm_key form; row maps normalized headers to cells
RECURSIVE get_first(_, _)
get_first(row, keys) ==
    IF keys = <<>> THEN <<>>
    ELSE IF keys[1] \in DOMAIN row /\ clean_cell(row[keys[1]]) # <<>>
         THEN clean_cell(row[keys[1]])
    ELSE get_first(row, Tail(keys))

\* s.split(sep) for one character sep: the parts, empty ones included
RECURSIVE SplitAll(_, _)
SplitAll(s, sep) ==
    IF \A k \in DOMAIN s : s[k] # sep THEN <<s>>
    ELSE LET k == CHOOSE i \in DOMAIN s : s[i] = sep /\ \A j \in 1..(i - 1) : s[j] # sep
         IN  <<SubSeq(s, 1, k - 1)>> \o SplitAll(SubSeq(s, k + 1, Len(s)), sep)

NotEmpty(s) == s # <<>>
StripAll(parts) == [k \in DOMAIN parts |-> Strip(parts[k])]

\* split_csvish: re.split(r"[;,]+", s) yields the parts between separator
\* runs; the parts between single separators differ from them by empty parts
\* only, which are dropped
split_csvish(s0) ==
    LET s == clean_cell(s0)
    IN  IF s = <<>> THEN <<>>
        ELSE SelectSeq(StripAll(SplitAll(ReplaceChar(s, ";", <<",">>), ",")), NotEmpty)

split_semicolon_only(s0) ==
    LET s == clean_cell(s0)
    IN  IF s = <<>> THEN <<>>
        ELSE SelectSeq(StripAll(SplitAll(s, ";")), NotEmpty)

\* name.split(",", 1) and group.split(":", 1): <<before, after>> the first sep
SplitFirst(s, sep) ==
    LET k == CHOOSE i \in DOMAIN s : s[i] = sep /\ \A j \in 1..(i - 1) : s[j] # sep
    IN  <<SubSeq(s, 1, k - 1), SubSeq(s, k + 1, Len(s))>>

Contains(s, c) == \E k \in DOMAIN s : s[k] = c

flip_last_first(name0) ==
    LET name == clean_cell(name0)
    IN  IF ~Contains(name, ",") THEN name
        ELSE LET last == Strip(SplitFirst(name, ",")[1])
                 rest == Strip(SplitFirst(name, ",")[2])
             IN  IF rest = <<>> THEN last
                 ELSE Strip(rest \o <<" ">> \o last)

\* FIGURE_ID_RE.match(s) with s as the whole subject: "w", 4 digits, "-p",
\* 3 or 4 digits, "-f", 2 digits, letters in either case (re.I).  None, or
\* <<the three groups>>.
FigureIdFullMatch(s) ==
    LET n == Len(s) - 11    \* the length of the page group
    IN  IF /\ n \in {3, 4}
           /\ LowerChar(s[1]) = "w" /\ AllDigits(SubSeq(s, 2, 5))
           /\ s[6] = "-" /\ LowerChar(s[7]) = "p" /\ AllDigits(SubSeq(s, 8, 7 + n))
           /\ s[8 + n] = "-" /\ LowerChar(s[9 + n]) = "f"
           /\ AllDigits(SubSeq(s, 10 + n, 11 + n))
        THEN Some(<<SubSeq(s, 1, 5), SubSeq(s, 8, 7 + n), SubSeq(s, 10 + n, 11 + n)>>)
        ELSE None

\* FIGURE_ID_RE.match(figure_id): "$" matches at the end of the string and
\* also just before a newline that ends the string.
FIGURE_ID_RE_match(figure_id) ==
    IF FigureIdFullMatch(figure_id) # None THEN FigureIdFullMatch(figure_id)
    ELSE IF figure_id # <<>> /\ figure_id[Len(figure_id)] = "\n"
         THEN FigureIdFullMatch(SubSeq(figure_id, 1, Len(figure_id) - 1))
    ELSE None

\* parse_figure_components: <<work, page, fcode>>
parse_figure_components(figure_id) ==
    LET m == FIGURE_ID_RE_match(figure_id)
    IN  IF m = None THEN <<<<>>, None, None>>
        ELSE <<normalize_work_id(m[1][1]), parse_int(m[1][2]), parse_int(m[1][3])>>

\* The list with its repetitions kept
KeepRepeats(s) == s

\* The order-preserving list of first occurrences: the "seen" loops
RECURSIVE Dedup(_)
Dedup(s) ==
    IF s = <<>> THEN <<>>
    ELSE LET init == Dedup(SubSeq(s, 1, Len(s) - 1))
         IN  IF s[Len(s)] \in Range(init) THEN init ELSE Append(init, s[Len(s)])

RECURSIVE Concat(_)
Concat(lists) == IF lists = <<>> THEN <<>> ELSE lists[1] \o Concat(Tail(lists))

\* A printed line: which message, the figure id, and the values it shows
Line(kind, fig, a, b, n) == [kind |-> kind, fig |-> fig, a |-> a, b |-> b, n |-> n]

Combo == <<"c", "o", "m", "b", "o">>

parse_types(raw) ==
    LET tokens == [k \in DOMAIN split_csvish(raw) |-> slugify(split_csvish(raw)[k])]
        Kept(t) == t # <<>> /\ t # Combo
    IN  SelectSeq(tokens, Kept)

parse_features_list_unslugged(raw) == SelectSeq(split_csvish(raw), NotEmpty)

parse_features_list(raw) ==
    LET tokens == [k \in DOMAIN split_csvish(raw) |-> slugify(split_csvish(raw)[k])]
    IN  SelectSeq(tokens, NotEmpty)

\* The loop of parse_features_by_type over the groups, from the dict and the
\* printed lines so far: [dict, out]
RECURSIVE ScopedGroups(_, _, _, _)
ScopedGroups(groups, types, fig_id, acc) ==
    IF groups = <<>> THEN acc
    ELSE LET group == groups[1]
             type_key == slugify(SplitFirst(group, ":")[1])
             feature_list_raw == SplitFirst(group, ":")[2]
             next ==
                IF ~Contains(group, ":")
                THEN [acc EXCEPT !.out = Append(@, Line("invalid_scoped_features", fig_id, group, <<>>, 0))]
                ELSE IF type_key = <<>> THEN acc
                ELSE IF type_key \notin Range(types)
                THEN [acc EXCEPT !.out = Append(@, Line("scoped_type_not_in_types", fig_id, type_key, <<>>, 0))]
                ELSE [acc EXCEPT !.dict = (type_key :> parse_features_list(feature_list_raw)) @@ @]
         IN  ScopedGroups(Tail(groups), types, fig_id, next)

\* parse_features_by_type taking the types the groups name as declared
parse_features_by_type_promote(raw, types, fig_id) ==
    LET groups == SelectSeq(StripAll(SplitAll(raw, ";")), NotEmpty)
        HasColon(g) == Contains(g, ":")
        scoped == SelectSeq(groups, HasColon)
        named == [k \in DOMAIN scoped |-> slugify(SplitFirst(scoped[k], ":")[1])]
    IN  IF Strip(raw) = <<>> THEN [dict |-> <<>>, out |-> <<>>]
        ELSE IF \A k \in DOMAIN groups : ~Contains(groups[k], ":")
        THEN [dict |-> <<>>,
              out |-> <<Line("multi_type_without_scoped_features", fig_id, <<>>, <<>>, 0)>>]
        ELSE ScopedGroups(groups, types \o named, fig_id, [dict |-> <<>>, out |-> <<>>])

\* parse_features_by_type: [dict |-> features_by_type, out |-> the lines printed]
parse_features_by_type(raw, types, fig_id) ==
    LET groups == SelectSeq(StripAll(SplitAll(raw, ";")), NotEmpty)
    IN  IF Strip(raw) = <<>> THEN [dict |-> <<>>, out |-> <<>>]
        ELSE IF \A k \in DOMAIN groups : ~Contains(groups[k], ":")
        THEN [dict |-> <<>>,
              out |-> <<Line("multi_type_without_scoped_features", fig_id, <<>>, <<>>, 0)>>]
        ELSE ScopedGroups(groups, types, fig_id, [dict |-> <<>>, out |-> <<>>])

Gray == <<"g", "r", "a", "y">>
Grey == <<"g", "r", "e", "y">>
Black == <<"b", "l", "a", "c", "k">>
OnlyBlack == <<"o", "n", "l", "y", "-", "b", "l", "a", "c", "k">>
OnlyBlackSpellings == {<<"o", "n", "l", "y", "b", "l", "a", "c", "k">>, OnlyBlack,
                       <<"o", "n", "l", "y">>}

normalize_color_token(tok) ==
    LET t0 == Lower(clean_cell(tok))
        t1 == ReplaceChar(ReplaceChar(t0, "_", <<"-">>), " ", <<"-">>)
        t2 == IF t1 = Grey THEN Gray ELSE t1
    IN  IF t2 \in OnlyBlackSpellings THEN OnlyBlack ELSE t2

\* parse_colors without the removal of "black"
parse_colors_keep_black(raw) ==
    LET toks == [k \in DOMAIN split_csvish(raw) |-> normalize_color_token(split_csvish(raw)[k])]
    IN  IF OnlyBlack \in Range(toks) THEN <<<<>>, TRUE>>
        ELSE <<Dedup(SelectSeq(toks, NotEmpty)), FALSE>>

\* parse_colors: <<colors, onlyBlack>>
parse_colors(raw) ==
    LET toks == [k \in DOMAIN split_csvish(raw) |-> normalize_color_token(split_csvish(raw)[k])]
        NotBlack(t) == t # <<>> /\ t # Black
        toks_wo_black == SelectSeq(toks, NotBlack)
    IN  IF OnlyBlack \in Range(toks) THEN <<<<>>, TRUE>>
        ELSE IF toks_wo_black = <<>> /\ toks # <<>> THEN <<<<>>, TRUE>>
        ELSE <<Dedup(toks_wo_black), FALSE>>

(***************************************************************************)
(* builders                                                                *)
(***************************************************************************)
\* x or None, for a str x
OrNone(x) == IF x = <<>> THEN None ELSE Some(x)

\* The list left as appended, without the final sort
Unsorted(items, keys) == items

\* list.sort(key=...): the stable ascending sort of items by the strings
\* keys[k], the key of items[k]
SortByKey(items, keys) ==
    LET Before(j, k) == StrLess(keys[j], keys[k]) \/ (keys[j] = keys[k] /\ j < k)
        Rank(k) == 1 + Cardinality({j \in DOMAIN items : Before(j, k)})
    IN  [p \in DOMAIN items |-> items[CHOOSE k \in DOMAIN items : Rank(k) = p]]

WorkIdKeys == <<"work_id", "work", "workid", "work_key", "work_key">>

\* The record build_works appends for row r
WorkRecord(r, work_id, title) ==
    LET authors_raw == split_semicolon_only(get_first(r, <<"author_s", "authors", "author">>))
    IN  [workId |-> work_id,
         year |-> parse_int(get_first(r, <<"pub_year", "year", "publication_year", "pub_year">>)),
         title |-> title,
         series |-> OrNone(get_first(r, <<"series">>)),
         language |-> OrNone(get_first(r, <<"language">>)),
         authors |-> [k \in DOMAIN authors_raw |-> flip_last_first(authors_raw[k])],
         informationDesigners |->
             split_semicolon_only(get_first(r, <<"information_designers",
                                                 "information_designers", "designers">>)),
         publisher |-> OrNone(get_first(r, <<"publisher">>)),
         publisherCity |-> OrNone(get_first(r, <<"publisher_city", "publisher_city", "city">>)),
         heightCm |-> parse_int(get_first(r, <<"height_cm", "height_cm", "height">>)),
         oclcNumber |-> OrNone(get_first(r, <<"oclc_number", "oclc">>)),
         isbn |-> OrNone(get_first(r, <<"isbn">>)),
         scanSource |-> OrNone(get_first(r, <<"scan_source">>)),
         firstEdition |-> OrNone(get_first(r, <<"1st_ed", "1st_ed", "first_edition">>))]

\* The iteration without the test of the title
WorkRow_keep_untitled(r) ==
    LET work_id == normalize_work_id(get_first(r, WorkIdKeys))
    IN  IF work_id = <<>> THEN <<>> ELSE <<WorkRecord(r, work_id, get_first(r, <<"title">>))>>

\* One iteration of build_works' loop: the records it appends for row r
WorkRow(r) ==
    LET work_id == normalize_work_id(get_first(r, WorkIdKeys))
        title == get_first(r, <<"title">>)
    IN  IF work_id = <<>> \/ title = <<>> THEN <<>> ELSE <<WorkRecord(r, work_id, title)>>

\* build_works' loop: the list before the sort
RECURSIVE WorksLoop(_)
WorksLoop(rows) ==
    IF rows = <<>> THEN <<>> ELSE WorkRow(rows[1]) \o WorksLoop(Tail(rows))

build_works(rows) ==
    The({SortByKey(ws, keys) :
            ws \in {WorksLoop(rows)},
            keys \in {[k \in DOMAIN WorksLoop(rows) |-> WorksLoop(rows)[k].workId]}})

\* {w["workId"]: w for w in works}: the last record of each workId
WorksById(ws) ==
    [id \in {ws[k].workId : k \in DOMAIN ws} |->
        ws[CHOOSE k \in DOMAIN ws : ws[k].workId = id /\ \A j \in DOMAIN ws : ws[j].workId = id => j <= k]]

ThumbPrefix == <<"/", "w", "e", "b", "p", "/", "t", "h", "u", "m", "b", "s", "/">>
ThumbSuffix == <<"_", "h", "0", "5", "0", "0", ".", "w", "e", "b", "p">>
ViewPrefix == <<"/", "w", "e", "b", "p", "/", "v", "i", "e", "w", "s", "/">>
ViewSuffix == <<"_", "h", "2", "4", "0", "0", ".", "w", "e", "b", "p">>

\* work_from_id or work_col or None, with the column tried first
ResolveWorkId_column_first(work_from_id, work_col) ==
    IF work_col # <<>> THEN Some(work_col) ELSE OrNone(work_from_id)

\* work_from_id or work_col or None
ResolveWorkId(work_from_id, work_col) ==
    IF work_from_id # <<>> THEN Some(work_from_id) ELSE OrNone(work_col)

\* The body of build_figures' loop from line 290 on, with the values the
\* loop has computed so far as parameters: the record appended and the
\* lines printed
FigureRecord(r, by_id, fig_id, from_id, work_col, types, features_raw, scoped) ==
    LET work_from_id == from_id[1]
        page_from_id == from_id[2]
        fcode_from_id == from_id[3]
        mismatch ==
            IF work_from_id # <<>> /\ work_col # <<>> /\ work_from_id # work_col
            THEN <<Line("work_mismatch", fig_id, work_from_id, work_col, 0)>>
            ELSE <<>>
        work_id == ResolveWorkId(work_from_id, work_col)
        features_by_type ==
            IF Len(types) = 1 THEN types[1] :> parse_features_list(features_raw)
            ELSE IF Len(types) > 1 THEN scoped.dict
            ELSE <<>>
        MissingScoped(k) ==
            IF types[k] \in DOMAIN features_by_type THEN <<>>
            ELSE <<Line("missing_scoped_features", fig_id, types[k], <<>>, 0)>>
        Features(k) ==
            IF types[k] \in DOMAIN features_by_type THEN features_by_type[types[k]] ELSE <<>>
        colors == parse_colors(get_first(r, <<"colors", "color", "palette">>))
        themes_raw == split_csvish(get_first(r, <<"themes", "topic_themes", "topic_themes">>))
    IN  [records |->
            << [id |-> fig_id,
                workId |-> work_id,
                page |-> IF page_from_id # None THEN page_from_id
                         ELSE parse_int(get_first(r, <<"page", "page_number">>)),
                figureCode |-> IF fcode_from_id # None THEN fcode_from_id
                               ELSE parse_int(get_first(r, <<"figure_code", "fig_code", "f">>)),
                thumb |-> ThumbPrefix \o fig_id \o ThumbSuffix,
                view |-> ViewPrefix \o fig_id \o ViewSuffix,
                title |-> OrNone(get_first(r, <<"figure_title", "title">>)),
                types |-> types,
                typesFlat |-> types,
                isCombo |-> Len(types) > 1,
                featuresByType |-> features_by_type,
                featuresFlat |-> Dedup(Concat([k \in DOMAIN types |-> Features(k)])),
                colors |-> colors[1],
                onlyBlack |-> colors[2],
                themes |-> [k \in DOMAIN themes_raw |-> clean_cell(themes_raw[k])],
                aiDescription |-> OrNone(get_first(r, <<"ai_description", "ai_description">>)),
                ocrText |-> OrNone(get_first(r, <<"ocr_text", "ocr", "figure_text", "figure_text">>)),
                workYear |-> IF work_id # None /\ work_id[1] \in DOMAIN by_id
                             THEN by_id[work_id[1]].year
                             ELSE None,
                typeTokens |-> types] >>,
         out |-> mismatch
                 \o (IF Len(types) > 1
                     THEN scoped.out \o Concat([k \in DOMAIN types |-> MissingScoped(k)])
                     ELSE <<>>)]

\* The loop body once types and features_raw are known: parse_features_by_type
\* is called for a figure of several types only
FigureTyped(r, by_id, fig_id, from_id, work_col, types, features_raw) ==
    The({FigureRecord(r, by_id, fig_id, from_id, work_col, types, features_raw, scoped) :
            scoped \in {IF Len(types) > 1
                        THEN parse_features_by_type(features_raw, types, fig_id)
                        ELSE [dict |-> <<>>, out |-> <<>>]}})

\* The loop body once fig_id is known and not empty
FigureIdentified(r, by_id, fig_id) ==
    The({FigureTyped(r, by_id, fig_id, from_id, work_col, types, features_raw) :
            from_id \in {parse_figure_components(fig_id)},
            work_col \in {normalize_work_id(get_first(r, <<"work_id", "work", "workid">>))},
            types \in {parse_types(get_first(r, <<"types", "figure_type", "basic_chart",
                                                  "chart_type", "chart_type", "type">>))},
            features_raw \in {get_first(r, <<"features", "chart_facets", "facets",
                                             "chart_types", "chart_types">>)}})

\* One iteration of build_figures' loop for row r: the records it appends
\* and the lines it prints
FigureRow(r, by_id) ==
    The({IF fig_id = <<>> THEN [records |-> <<>>, out |-> <<>>]
         ELSE FigureIdentified(r, by_id, fig_id) :
            fig_id \in {normalize_figure_id(get_first(r, <<"figure_id", "id", "figure", "filename">>))}})

\* build_figures' loop: the list before the sort, and the lines printed
RECURSIVE FiguresLoop(_, _)
FiguresLoop(rows, by_id) ==
    IF rows = <<>> THEN [records |-> <<>>, out |-> <<>>]
    ELSE The({[records |-> first.records \o rest.records, out |-> first.out \o rest.out] :
                first \in {FigureRow(rows[1], by_id)},
                rest \in {FiguresLoop(Tail(rows), by_id)}})

\* build_figures: [figures |-> the list returned, out |-> the lines printed]
build_figures(rows, by_id) ==
    The({[figures |-> SortByKey(loop.records, keys), out |-> loop.out] :
            loop \in {FiguresLoop(rows, by_id)},
            keys \in {[k \in DOMAIN FiguresLoop(rows, by_id).records |->
                          FiguresLoop(rows, by_id).records[k].id]}})

(***************************************************************************)
(* IO and main                                                             *)
(***************************************************************************)
\* read_csv on the rows csv.DictReader yields, their headers already in
\* norm_key form: the cells cleaned, the rows without any text dropped
read_csv(file) ==
    LET cleaned == [i \in DOMAIN file |-> [k \in DOMAIN file[i] |-> clean_cell(file[i][k])]]
        HasText(r) == \E k \in DOMAIN r : Strip(r[k]) # <<>>
    IN  SelectSeq(cleaned, HasText)

\* sorted(S) for a set S of str
Sorted(S) ==
    LET Rank(x) == 1 + Cardinality({y \in S : StrLess(y, x)})
    IN  [p \in 1..Cardinality(S) |-> CHOOSE x \in S : Rank(x) = p]

\* The lines main prints about figures whose workId is not in works_by_id
\* (the same with the test against works_by_id left out comes first)
MissingWorksReportAll(figs, by_id) ==
    LET missing_works == Sorted({figs[k].workId[1] : k \in {j \in DOMAIN figs : figs[j].workId # None}})
    IN  IF missing_works = <<>> THEN <<>>
        ELSE <<Line("unknown_works_header", <<>>, <<>>, <<>>, 0)>>
             \o [k \in DOMAIN missing_works |-> Line("unknown_work", <<>>, missing_works[k], <<>>, 0)]

MissingWorksReport(figs, by_id) ==
    LET missing_works ==
            Sorted({figs[k].workId[1] :
                        k \in {j \in DOMAIN figs : /\ figs[j].workId # None
                                                   /\ figs[j].workId[1] \notin DOMAIN by_id}})
    IN  IF missing_works = <<>> THEN <<>>
        ELSE <<Line("unknown_works_header", <<>>, <<>>, <<>>, 0)>>
             \o [k \in DOMAIN missing_works |-> Line("unknown_work", <<>>, missing_works[k], <<>>, 0)]

\* main, lines 404-405: the works CSV does not exist
MissingWorksCsv ==
    /\ pc = "start" /\ ~works_csv.exists
    /\ stderr' = <<Line("missing_works_csv", <<>>, <<>>, <<>>, 0)>>
    /\ exit_code' = Some(1)
    /\ pc' = "exit"
    /\ UNCHANGED <<works_csv, figures_csv, works_rows, fig_rows, works, works_by_id,
                   figures, stdout, out_files, call, ret, side_vars>>

\* The figures CSV does not exist: the message is printed and main returns
MissingFiguresCsvReturns ==
    /\ pc = "start" /\ works_csv.exists /\ ~figures_csv.exists
    /\ stderr' = <<Line("missing_figures_csv", <<>>, <<>>, <<>>, 0)>>
    /\ exit_code' = Some(0)
    /\ pc' = "exit"
    /\ UNCHANGED <<works_csv, figures_csv, works_rows, fig_rows, works, works_by_id,
                   figures, stdout, out_files, call, ret, side_vars>>

\* main, lines 406-407: the figures CSV does not exist
MissingFiguresCsv ==
    /\ pc = "start" /\ works_csv.exists /\ ~figures_csv.exists
    /\ stderr' = <<Line("missing_figures_csv", <<>>, <<>>, <<>>, 0)>>
    /\ exit_code' = Some(1)
    /\ pc' = "exit"
    /\ UNCHANGED <<works_csv, figures_csv, works_rows, fig_rows, works, works_by_id,
                   figures, stdout, out_files, call, ret, side_vars>>

\* main, lines 409-410
ReadInputs ==
    /\ pc = "start" /\ works_csv.exists /\ figures_csv.exists
    /\ works_rows' = read_csv(works_csv.rows)
    /\ fig_rows' = read_csv(figures_csv.rows)
    /\ pc' = "build_works"
    /\ UNCHANGED <<works_csv, figures_csv, works, works_by_id, figures, stdout, stderr,
                   out_files, exit_code, call, ret, side_vars>>

\* main, lines 412-413
BuildWorks ==
    /\ pc = "build_works"
    /\ works' = build_works(works_rows)
    /\ works_by_id' = WorksById(works')
    /\ pc' = "build_figures"
    /\ UNCHANGED <<works_csv, figures_csv, works_rows, fig_rows, figures, stdout, stderr,
                   out_files, exit_code, call, ret, side_vars>>

\* main, line 415
BuildFigures ==
    /\ pc = "build_figures"
    /\ \E built \in {build_figures(fig_rows, works_by_id)} :
          /\ figures' = built.figures
          /\ stdout' = stdout \o built.out
    /\ pc' = "report"
    /\ UNCHANGED <<works_csv, figures_csv, works_rows, fig_rows, works, works_by_id, stderr,
                   out_files, exit_code, call, ret, side_vars>>

\* main, lines 417-422
ReportMissingWorks ==
    /\ pc = "report"
    /\ stdout' = stdout \o MissingWorksReport(figures, works_by_id)
    /\ pc' = "write"
    /\ UNCHANGED <<works_csv, figures_csv, works_rows, fig_rows, works, works_by_id, figures,
                   stderr, out_files, exit_code, call, ret, side_vars>>

\* write_json(path, obj): the file's new content.  json.dump is a function of
\* obj alone; the content is kept as the object it encodes.
write_json(obj) == Some(obj)

\* WriteOutputs leaving a file that exists as it is
WriteOutputsIfAbsent ==
    /\ pc = "write"
    /\ out_files' = [works_json |-> IF out_files.works_json = None THEN write_json(works)
                                    ELSE out_files.works_json,
                     figures_json |-> IF out_files.figures_json = None THEN write_json(figures)
                                      ELSE out_files.figures_json]
    /\ stdout' = stdout \o <<Line("wrote_works", <<>>, <<>>, <<>>, Len(works)),
                             Line("wrote_figures", <<>>, <<>>, <<>>, Len(figures))>>
    /\ exit_code' = Some(0)
    /\ pc' = "done"
    /\ UNCHANGED <<works_csv, figures_csv, works_rows, fig_rows, works, works_by_id, figures,
                   stderr, call, ret, side_vars>>

\* main, lines 424-428, and the return from main
WriteOutputs ==
    /\ pc = "write"
    /\ out_files' = [works_json |-> write_json(works), figures_json |-> write_json(figures)]
    /\ stdout' = stdout \o <<Line("wrote_works", <<>>, <<>>, <<>>, Len(works)),
                             Line("wrote_figures", <<>>, <<>>, <<>>, Len(figures))>>
    /\ exit_code' = Some(0)
    /\ pc' = "done"
    /\ UNCHANGED <<works_csv, figures_csv, works_rows, fig_rows, works, works_by_id, figures,
                   stderr, call, ret, side_vars>>

Next ==
    \/ MissingWorksCsv
    \/ MissingFiguresCsv
    \/ ReadInputs
    \/ BuildWorks
    \/ BuildFigures
    \/ ReportMissingWorks
    \/ WriteOutputs

\* The output folder before the run: without the two files, or with the
\* files an earlier build left
EmptyFolder == [works_json |-> None, figures_json |-> None]
StaleFolder == [works_json |-> Some(<<[stale |-> TRUE]>>),
                figures_json |-> Some(<<[stale |-> TRUE]>>)]

\* The state in which main starts, for the given sets of input tables and
\* output folders
Start(works_files, figures_files, folders) ==
    /\ pc = "start"
    /\ works_csv \in {File(rows) : rows \in works_files} \cup {Missing}
    /\ figures_csv \in {File(rows) : rows \in figures_files} \cup {Missing}
    /\ works_rows = <<>> /\ fig_rows = <<>>
    /\ works = <<>> /\ works_by_id = <<>> /\ figures = <<>>
    /\ stdout = <<>> /\ stderr = <<>> /\ exit_code = None
    /\ out_files \in folders
    /\ call = [fn |-> "main", arg |-> <<>>] /\ ret = None
    /\ SideIdle

\* All lists of at most n of the given rows
RowLists(rows, n) == UNION {[1..k -> rows] : k \in 0..n}

(***************************************************************************)
(* The build on small works and figures tables.                            *)
(***************************************************************************)
\* The longest works table and figures table
MaxWorkRows == 2
MaxFigureRows == 2

\* Works rows: a plain one, one whose id normalizes to the same workId, one
\* without a title, one under alias headers with an id that is not of the
\* w<digits> form, one without an id
WorkRowMenu ==
    { [work_id |-> <<"1">>, title |-> <<"A">>, year |-> <<"1", "9", "3", "0">>],
      [work_id |-> <<"w", "0", "0", "0", "1">>, title |-> <<"B">>],
      [work_id |-> <<"W", "2">>, title |-> <<" ">>, year |-> <<"1", "9", "3", "1">>],
      [work_id |-> <<>>, work_key |-> <<"X", " ", "9">>, title |-> <<"C">>,
       pub_year |-> <<"c", ".", "1", "9", "3", "5">>],
      [work_id |-> <<" ">>, title |-> <<"D">>] }

\* Figures rows: a structured id with an extension, a structured id of a
\* work that is not listed (with another work in the column), a plain id
\* whose column names the same unlisted work, and an id that is only an
\* extension
FigureRowMenu ==
    { [figure_id |-> <<"w", "0", "0", "0", "1", "-", "p", "0", "0", "1", "-", "f", "0", "1", ".", "P", "N", "G">>,
       types |-> <<"b", "a", "r">>, features |-> <<"s", "t", "a", "c", "k", "e", "d">>],
      [figure_id |-> <<"W", "0", "0", "0", "3", "-", "P", "0", "0", "1", "2", "-", "F", "0", "2">>,
       work_id |-> <<"1">>],
      [id |-> <<"f", "i", "g", "-", "b", ".", "j", "p", "g">>, work_id |-> <<"3">>],
      [figure_id |-> <<".", "p", "n", "g">>, work_id |-> <<"1">>] }

Init ==
    Start(RowLists(WorkRowMenu, MaxWorkRows), RowLists(FigureRowMenu, MaxFigureRows),
          {EmptyFolder})

Spec == Init /\ [][Next]_vars

(***************************************************************************)
(* The build on a figures table of one row, next to an empty works table   *)
(* or one of a single work.                                                *)
(***************************************************************************)
\* s[1] sep s[2] sep ... s[n]
RECURSIVE Join(_, _)
Join(parts, sep) ==
    IF parts = <<>> THEN <<>>
    ELSE IF Len(parts) = 1 THEN parts[1]
    ELSE parts[1] \o sep \o Join(Tail(parts), sep)

\* The texts of at most n of the given tokens, joined by one of the
\* separators
Joined(tokens, seps, n) ==
    {Join(parts, sep) : parts \in UNION {[1..k -> tokens] : k \in 0..n}, sep \in seps}

OneWork == <<[work_id |-> <<"1">>, title |-> <<"A">>, year |-> <<"1", "9", "3", "0">>]>>

OneFigure(rows) == Start({<<>>, OneWork}, {<<r>> : r \in rows}, {EmptyFolder})

\* Raw figure ids: a stem, then at most MaxExt endings, then perhaps a space
MaxExt == 2
IdStems == {<<>>, <<"a">>, <<"W", "0", "0", "0", "1", "-", "P", "0", "0", "1", "-", "F", "0", "1">>}
IdExtensions ==
    {<<".", "p", "n", "g">>, <<".", "P", "N", "G">>, <<".", "w", "e", "b", "p">>,
     <<".", "J", "p", "g">>, <<".", "j", "p", "e", "g">>, <<".", "t", "i", "f">>,
     <<".", "T", "I", "F", "F">>, <<".", "t", "x", "t">>, <<"p", "n", "g">>}
RawFigureIds ==
    {stem \o exts \o trail : stem \in IdStems, exts \in Joined(IdExtensions, {<<>>}, MaxExt),
                             trail \in {<<>>, <<" ">>}}

InitFigureId == OneFigure({[figure_id |-> raw] : raw \in RawFigureIds})
SpecFigureId == InitFigureId /\ [][Next]_vars

\* Raw colors cells: at most MaxColorTokens color names
MaxColorTokens == 3
ColorTokens ==
    {<<"R", "e", "d">>, Black, <<"B", "l", "a", "c", "k">>, <<"B", "l", "u", "e">>,
     <<"O", "n", "l", "y", "_", "B", "l", "a", "c", "k">>, <<"o", "n", "l", "y">>, Grey}
RawColors == Joined(ColorTokens, {<<",", " ">>, <<";">>}, MaxColorTokens)

InitColors == OneFigure({[figure_id |-> <<"a">>, colors |-> raw] : raw \in RawColors})
SpecColors == InitColors /\ [][Next]_vars

\* Raw types cells of at most MaxTypeTokens tokens, and raw features cells
MaxTypeTokens == 2
TypeTokens ==
    {<<"b", "a", "r">>, <<"B", "a", "r", " ">>, Combo, <<"L", "i", "n", "e", " ", "C", "h", "a", "r", "t">>,
     <<"-">>}
RawTypes == Joined(TypeTokens, {<<",">>}, MaxTypeTokens)
RawFeatures ==
    {<<>>,
     <<"s", "t", "a", "c", "k", "e", "d", ",", " ", "h", "o", "r", "i", "z", "o", "n", "t", "a", "l">>,
     <<"b", "a", "r", ":", " ", "s", "t", "a", "c", "k", "e", "d", ";", " ",
       "L", "i", "n", "e", " ", "c", "h", "a", "r", "t", ":", "d", "o", "t", "s">>,
     <<"s", "t", "a", "c", "k", "e", "d", ";", "b", "a", "r", ":", "x">>,
     <<"p", "i", "e", ":", "a">>,
     <<"T", "o", "p", " ", "&", " ", "B", "o", "t", "t", "o", "m", ",", ",", "-", ";", "t", "o", "p", "-", "b", "o", "t", "t", "o", "m">>,
     <<"y", ",", " ", "X", ",", " ", "y">>,
     <<"b", "a", "r", ":", " ", "x", ",", " ", "y", ",", " ", "x", ";", " ",
       "l", "i", "n", "e", " ", "c", "h", "a", "r", "t", ":", " ", "y", ",", " ", "z">>}

InitTypes ==
    OneFigure({[figure_id |-> <<"a">>, types |-> t, features |-> f] : t \in RawTypes, f \in RawFeatures})
SpecTypes == InitTypes /\ [][Next]_vars

\* Figures rows for the resolution of workId, page and figureCode: ids that
\* decompose (one with an extension, one of zeros, one before a line break
\* and an extension) and that do not, with and without the columns
ResolveIds ==
    {<<"W", "0", "0", "0", "1", "-", "P", "0", "0", "3", "8", "-", "F", "9", "9", ".", "p", "n", "g">>,
     <<"w", "0", "0", "0", "2", "-", "p", "0", "0", "0", "-", "f", "0", "0">>,
     <<"w", "0", "0", "0", "1", "-", "p", "1", "2", "0", "-", "f", "9", "9", "\n", ".", "p", "n", "g">>,
     <<"w", "0", "0", "0", "1", "-", "p", "1", "2", "-", "f", "1">>,
     <<"f", "i", "g", "-", "a">>}
ResolveWorkCells == {<<>>, <<"1">>, <<"W", "2">>, <<"X", " ", "9">>}
ResolvePageCells == {<<>>, <<"7">>, <<"p", ".", " ", "1", "2">>}
ResolveCodeCells == {<<>>, <<"3">>}

InitResolve ==
    OneFigure({[figure_id |-> id, work_id |-> w, page |-> p, figure_code |-> c] :
                  id \in ResolveIds, w \in ResolveWorkCells, p \in ResolvePageCells, c \in ResolveCodeCells})
SpecResolve == InitResolve /\ [][Next]_vars

(***************************************************************************)
(* The build run from the command line, once and again, on a folder that   *)
(* may hold the files of an earlier build.                                 *)
(***************************************************************************)
\* main is started again after a run that ended: a new process, its
\* variables and streams fresh, the input files and the output folder as the
\* earlier run left them
RunAgain ==
    /\ pc \in {"done", "exit"}
    /\ pc' = "start"
    /\ works_rows' = <<>> /\ fig_rows' = <<>>
    /\ works' = <<>> /\ works_by_id' = <<>> /\ figures' = <<>>
    /\ stdout' = <<>> /\ stderr' = <<>> /\ exit_code' = None
    /\ UNCHANGED <<works_csv, figures_csv, out_files, call, ret, side_vars>>

NextCli ==
    \/ Next
    \/ RunAgain

\* The longest works table and figures table of these runs
MaxCliRows == 1

\* Figures rows of two types whose features cell is not scoped, and has a
\* group that is not scoped and one for a type that is not declared
FeatureWarningRows ==
    { [figure_id |-> <<"c">>, types |-> <<"b", "a", "r", ",", "l", "i", "n", "e">>,
       features |-> <<"s", "t", "a", "c", "k", "e", "d">>],
      [figure_id |-> <<"d">>, types |-> <<"b", "a", "r", ",", "l", "i", "n", "e">>,
       features |-> <<"s", "t", "a", "c", "k", "e", "d", ";", "b", "a", "r", ":", "x", ";", "p", "i", "e", ":", "y">>] }

InitCli ==
    Start(RowLists(WorkRowMenu, MaxCliRows), RowLists(FigureRowMenu \cup FeatureWarningRows, MaxCliRows),
          {EmptyFolder, StaleFolder})
SpecCli == InitCli /\ [][NextCli]_vars

(***************************************************************************)
(* The side processes: ocr_views.py and describe_views_ollama.py, run on   *)
(* the figures.json of the build, each keeping a side file keyed by figure *)
(* id.                                                                     *)
(***************************************************************************)
\* dict.update
Update(d, u) == [k \in DOMAIN d \cup DOMAIN u |-> IF k \in DOMAIN u THEN u[k] ELSE d[k]]

\* sorted(ids) of a set of strings
RECURSIVE SortedIds(_)
SortedIds(ids) ==
    IF ids = {} THEN <<>>
    ELSE LET least == CHOOSE a \in ids : \A b \in ids : a = b \/ StrLess(a, b)
         IN  <<least>> \o SortedIds(ids \ {least})

\* re.sub(r"[ \t]+", " ", text)
RECURSIVE SubBlankRuns(_)
SubBlankRuns(s) ==
    IF s = <<>> THEN <<>>
    ELSE IF s[1] \in {" ", "\t"}
         THEN IF Len(s) > 1 /\ s[2] \in {" ", "\t"} THEN SubBlankRuns(Tail(s))
              ELSE <<" ">> \o SubBlankRuns(Tail(s))
         ELSE <<s[1]>> \o SubBlankRuns(Tail(s))

\* re.sub(r"\n{3,}", "\n\n", text)
RECURSIVE SubNewlineRuns(_)
SubNewlineRuns(s) ==
    IF s = <<>> THEN <<>>
    ELSE IF Len(s) > 2 /\ s[1] = "\n" /\ s[2] = "\n" /\ s[3] = "\n" THEN SubNewlineRuns(Tail(s))
    ELSE <<s[1]>> \o SubNewlineRuns(Tail(s))

\* run_tesseract: the text returned for what tesseract printed
TesseractText(printed) == Strip(SubNewlineRuns(SubBlankRuns(printed)))

\* normalize_ws: " ".join(text.split())
RECURSIVE normalize_ws(_)
normalize_ws(text) ==
    LET s == Strip(text)
    IN  IF s = <<>> THEN <<>>
        ELSE IF \E k \in DOMAIN s : IsSpace(s[k])
             THEN LET cut == CHOOSE k \in DOMAIN s :
                                 IsSpace(s[k]) /\ \A j \in 1..(k - 1) : ~IsSpace(s[j])
                  IN  SubSeq(s, 1, cut - 1) \o <<" ">> \o normalize_ws(SubSeq(s, cut + 1, Len(s)))
             ELSE s

\* request_ollama and line 337: the description stored for the content the
\* server answered
DescriptionText(content) == normalize_ws(Strip(content))

\* load_existing, and describe_views_ollama.main lines 288-292: the dict of
\* the side file; the values of a file these processes wrote are strings
load_existing(file) == IF file = None THEN <<>> ELSE file[1]

\* What the external tool can print for an image
ToolOutputs ==
    { <<>>, <<" ", "x", " ", "\t", "y", "\n", "\n", "\n", "\n", "z", " ">> }

Ocr == "ocr_views.main"
Describe == "describe_views_ollama.main"

\* The run ends with a traceback: exit status 1, nothing written
Crash(kind, figure_id) ==
    /\ pc' = "crash"
    /\ exit_code' = Some(1)
    /\ stderr' = Append(stderr, Line(kind, figure_id, <<>>, <<>>, 0))

\* ocr_views.main, lines 146-150: figures.json is missing
OcrMissingFigures ==
    /\ pc = "start" /\ call.fn = Ocr
    /\ out_files.figures_json = None
    /\ existing' = load_existing(side_file)
    /\ pc' = "exit" /\ exit_code' = Some(1)
    /\ stderr' = Append(stderr, Line("missing_figures_json", <<>>, <<>>, <<>>, 0))
    /\ UNCHANGED <<works_csv, figures_csv, works_rows, fig_rows, works, works_by_id, figures,
                   stdout, out_files, call, ret, side_file, images, updated, processed, todo,
                   invoked>>

\* ocr_views.main, lines 146-159
OcrStart ==
    /\ pc = "start" /\ call.fn = Ocr
    /\ out_files.figures_json # None
    /\ existing' = load_existing(side_file)
    /\ figures' = out_files.figures_json[1]
    /\ todo' = SortedIds({figures'[k].id : k \in DOMAIN figures'} \ {<<>>})
    /\ processed' = 0 /\ updated' = <<>>
    /\ pc' = "loop"
    /\ UNCHANGED <<works_csv, figures_csv, works_rows, fig_rows, works, works_by_id, stdout,
                   stderr, out_files, exit_code, call, ret, side_file, images, invoked>>

\* ocr_views.main, lines 165-167: no image for the figure; the print names
\* sys, which the module does not import, and raises NameError
OcrImageMissing ==
    /\ pc = "loop" /\ call.fn = Ocr /\ todo # <<>>
    /\ Head(todo) \notin images
    /\ Crash("name_error", Head(todo))
    /\ UNCHANGED <<works_csv, figures_csv, works_rows, fig_rows, works, works_by_id, figures,
                   stdout, out_files, call, ret, side_file, images, existing, updated,
                   processed, todo, invoked>>

\* ocr_views.main, lines 173-174
OcrSkipExisting ==
    /\ pc = "loop" /\ call.fn = Ocr /\ todo # <<>>
    /\ Head(todo) \in images
    /\ ~call.arg.force /\ Head(todo) \in DOMAIN existing
    /\ todo' = Tail(todo)
    /\ UNCHANGED <<pc, works_csv, figures_csv, works_rows, fig_rows, works, works_by_id,
                   figures, stdout, stderr, out_files, exit_code, call, ret, side_file, images,
                   existing, updated, processed, invoked>>

\* ocr_views.main, lines 175-179: tesseract is run and prints a text
OcrRunTesseract ==
    /\ pc = "loop" /\ call.fn = Ocr /\ todo # <<>>
    /\ Head(todo) \in images
    /\ call.arg.force \/ Head(todo) \notin DOMAIN existing
    /\ invoked' = Append(invoked, Head(todo))
    /\ \E printed \in ToolOutputs :
          updated' = Update(updated, [k \in {Head(todo)} |-> TesseractText(printed)])
    /\ processed' = processed + 1
    /\ todo' = Tail(todo)
    /\ pc' = IF call.arg.limit # 0 /\ processed' >= call.arg.limit THEN "save" ELSE "loop"
    /\ UNCHANGED <<works_csv, figures_csv, works_rows, fig_rows, works, works_by_id, figures,
                   stdout, stderr, out_files, exit_code, call, ret, side_file, images,
                   existing>>

\* ocr_views.main, line 175, run_tesseract lines 59-62: tesseract is run and
\* fails, RuntimeError
OcrTesseractFails ==
    /\ pc = "loop" /\ call.fn = Ocr /\ todo # <<>>
    /\ Head(todo) \in images
    /\ call.arg.force \/ Head(todo) \notin DOMAIN existing
    /\ invoked' = Append(invoked, Head(todo))
    /\ Crash("tesseract_failed", Head(todo))
    /\ UNCHANGED <<works_csv, figures_csv, works_rows, fig_rows, works, works_by_id, figures,
                   stdout, out_files, call, ret, side_file, images, existing, updated,
                   processed, todo>>

\* describe_views_ollama.main, line 278: the server does not answer,
\* RuntimeError
DescribeUnreachable ==
    /\ pc = "start" /\ call.fn = Describe
    /\ Crash("ollama_unreachable", <<>>)
    /\ UNCHANGED <<works_csv, figures_csv, works_rows, fig_rows, works, works_by_id, figures,
                   stdout, out_files, call, ret, side_file, images, existing, updated,
                   processed, todo, invoked>>

\* describe_views_ollama.main, lines 280-281: figures.json or works.json is
\* missing, FileNotFoundError
DescribeMissingJson ==
    /\ pc = "start" /\ call.fn = Describe
    /\ out_files.figures_json = None \/ out_files.works_json = None
    /\ Crash("file_not_found", <<>>)
    /\ UNCHANGED <<works_csv, figures_csv, works_rows, fig_rows, works, works_by_id, figures,
                   stdout, out_files, call, ret, side_file, images, existing, updated,
                   processed, todo, invoked>>

\* describe_views_ollama.main, lines 278-302; todo holds the ids of the
\* figures the loop has yet to visit
DescribeStart ==
    /\ pc = "start" /\ call.fn = Describe
    /\ out_files.figures_json # None /\ out_files.works_json # None
    /\ figures' = out_files.figures_json[1]
    /\ existing' = load_existing(side_file)
    /\ todo' = [k \in DOMAIN figures' |-> Strip(figures'[k].id)]
    /\ processed' = 0 /\ updated' = <<>>
    /\ pc' = "loop"
    /\ UNCHANGED <<works_csv, figures_csv, works_rows, fig_rows, works, works_by_id, stdout,
                   stderr, out_files, exit_code, call, ret, side_file, images, invoked>>

\* describe_views_ollama.main, lines 305-309: a figure without an id, or
\* one whose id is a key of the side file
DescribeSkip ==
    /\ pc = "loop" /\ call.fn = Describe /\ todo # <<>>
    /\ \/ Head(todo) = <<>>
       \/ ~call.arg.force /\ Head(todo) \in DOMAIN existing
    /\ todo' = Tail(todo)
    /\ UNCHANGED <<pc, works_csv, figures_csv, works_rows, fig_rows, works, works_by_id,
                   figures, stdout, stderr, out_files, exit_code, call, ret, side_file, images,
                   existing, updated, processed, invoked>>

\* describe_views_ollama.main, lines 311-314
DescribeImageMissing ==
    /\ pc = "loop" /\ call.fn = Describe /\ todo # <<>>
    /\ Head(todo) # <<>>
    /\ call.arg.force \/ Head(todo) \notin DOMAIN existing
    /\ Head(todo) \notin images
    /\ stderr' = Append(stderr, Line("image_not_found", Head(todo), <<>>, <<>>, 0))
    /\ todo' = Tail(todo)
    /\ UNCHANGED <<pc, works_csv, figures_csv, works_rows, fig_rows, works, works_by_id,
                   figures, stdout, out_files, exit_code, call, ret, side_file, images,
                   existing, updated, processed, invoked>>

\* describe_views_ollama.main, lines 316-345: the server is asked and
\* answers
DescribeRequest ==
    /\ pc = "loop" /\ call.fn = Describe /\ todo # <<>>
    /\ Head(todo) # <<>>
    /\ call.arg.force \/ Head(todo) \notin DOMAIN existing
    /\ Head(todo) \in images
    /\ invoked' = Append(invoked, Head(todo))
    /\ \E content \in ToolOutputs :
          updated' = Update(updated, [k \in {Head(todo)} |-> DescriptionText(content)])
    /\ processed' = processed + 1
    /\ stdout' = Append(stdout, Line("ok", Head(todo), <<>>, <<>>, 0))
    /\ todo' = Tail(todo)
    /\ pc' = IF call.arg.limit # 0 /\ processed' >= call.arg.limit THEN "save" ELSE "loop"
    /\ UNCHANGED <<works_csv, figures_csv, works_rows, fig_rows, works, works_by_id, figures,
                   stderr, out_files, exit_code, call, ret, side_file, images, existing>>

\* describe_views_ollama.main, lines 331-335: the server is asked and the
\* request fails; the loop is left with this figure and the later ones
\* unvisited
DescribeRequestFails ==
    /\ pc = "loop" /\ call.fn = Describe /\ todo # <<>>
    /\ Head(todo) # <<>>
    /\ call.arg.force \/ Head(todo) \notin DOMAIN existing
    /\ Head(todo) \in images
    /\ invoked' = Append(invoked, Head(todo))
    /\ stderr' = Append(stderr, Line("failed", Head(todo), <<>>, <<>>, 0))
    /\ pc' = "save"
    /\ UNCHANGED <<works_csv, figures_csv, works_rows, fig_rows, works, works_by_id, figures,
                   stdout, out_files, exit_code, call, ret, side_file, images, existing,
                   updated, processed, todo>>

\* The for loop has visited every figure
LoopEnds ==
    /\ pc = "loop" /\ todo = <<>>
    /\ pc' = "save"
    /\ UNCHANGED <<works_csv, figures_csv, works_rows, fig_rows, works, works_by_id, figures,
                   stdout, stderr, out_files, exit_code, call, ret, side_file, images,
                   existing, updated, processed, todo, invoked>>

\* SaveSideFile writing the new entries alone
SaveUpdatedOnly ==
    /\ pc = "save"
    /\ IF updated # <<>>
       THEN /\ existing' = updated
            /\ side_file' = Some(existing')
       ELSE UNCHANGED <<existing, side_file>>
    /\ stdout' = stdout \o <<Line("processed", <<>>, <<>>, <<>>, processed),
                             Line("output", <<>>, <<>>, <<>>, 0)>>
    /\ exit_code' = Some(0)
    /\ pc' = "done"
    /\ UNCHANGED <<works_csv, figures_csv, works_rows, fig_rows, works, works_by_id, figures,
                   stderr, out_files, call, ret, images, updated, processed, todo, invoked>>

\* ocr_views.main, lines 181-189, and describe_views_ollama.main, lines
\* 347-353
SaveSideFile ==
    /\ pc = "save"
    /\ IF updated # <<>>
       THEN /\ existing' = Update(existing, updated)
            /\ side_file' = Some(existing')
       ELSE UNCHANGED <<existing, side_file>>
    /\ stdout' = stdout \o <<Line("processed", <<>>, <<>>, <<>>, processed),
                             Line("output", <<>>, <<>>, <<>>, 0)>>
    /\ exit_code' = Some(0)
    /\ pc' = "done"
    /\ UNCHANGED <<works_csv, figures_csv, works_rows, fig_rows, works, works_by_id, figures,
                   stderr, out_files, call, ret, images, updated, processed, todo, invoked>>

\* The arguments of a run: --force or not, --limit 0 (none) or 1
SideArgs == [force : BOOLEAN, limit : {0, 1}]

\* The same process is run again after a run that ended, with any
\* arguments: its variables and streams fresh, the files as the earlier run
\* left them
SideRunAgain ==
    /\ pc \in {"done", "exit", "crash"}
    /\ pc' = "start"
    /\ \E arg \in SideArgs : call' = [fn |-> call.fn, arg |-> arg]
    /\ figures' = <<>> /\ existing' = <<>> /\ updated' = <<>> /\ processed' = 0
    /\ todo' = <<>> /\ invoked' = <<>>
    /\ stdout' = <<>> /\ stderr' = <<>> /\ exit_code' = None
    /\ UNCHANGED <<works_csv, figures_csv, works_rows, fig_rows, works, works_by_id, out_files,
                   ret, side_file, images>>

NextSide ==
    \/ OcrMissingFigures
    \/ OcrStart
    \/ OcrImageMissing
    \/ OcrSkipExisting
    \/ OcrRunTesseract
    \/ OcrTesseractFails
    \/ DescribeUnreachable
    \/ DescribeMissingJson
    \/ DescribeStart
    \/ DescribeSkip
    \/ DescribeImageMissing
    \/ DescribeRequest
    \/ DescribeRequestFails
    \/ LoopEnds
    \/ SaveSideFile
    \/ SideRunAgain

\* The longest figures.json of these runs, and its figure ids
MaxSideFigures == 2
SideIds == {<<"a">>, <<"b">>}
\* A key of a figure that is no longer listed
OtherId == <<"z">>
OldText == <<"o", "l", "d">>

\* figures.json as the build writes it: sorted by id
SideFigureLists ==
    {ids \in UNION {[1..n -> SideIds] : n \in 0..MaxSideFigures} :
        \A k \in 1..(Len(ids) - 1) : ids[k] = ids[k + 1] \/ StrLess(ids[k], ids[k + 1])}
SideFolders ==
    {EmptyFolder} \cup
    {[works_json |-> Some(<<>>),
      figures_json |-> Some([k \in DOMAIN ids |-> [id |-> ids[k], workId |-> <<>>]])] :
        ids \in SideFigureLists}
\* The side file: absent, or what earlier runs wrote
SideFiles ==
    {None} \cup {Some([id \in keys |-> OldText]) : keys \in SUBSET (SideIds \cup {OtherId})}

InitSide ==
    /\ pc = "start"
    /\ call \in [fn : {Ocr, Describe}, arg : SideArgs]
    /\ out_files \in SideFolders
    /\ side_file \in SideFiles
    /\ images \in SUBSET SideIds
    /\ works_csv = Missing /\ figures_csv = Missing
    /\ works_rows = <<>> /\ fig_rows = <<>>
    /\ works = <<>> /\ works_by_id = <<>> /\ figures = <<>>
    /\ stdout = <<>> /\ stderr = <<>> /\ exit_code = None /\ ret = None
    /\ existing = <<>> /\ updated = <<>> /\ processed = 0 /\ todo = <<>> /\ invoked = <<>>

SpecSide == InitSide /\ [][NextSide]_vars

(***************************************************************************)
(* A single call of one function on one argument.                          *)
(***************************************************************************)
\* All strings over the characters of alphabet, up to length n
StringsUpTo(alphabet, n) == UNION {[1..k -> alphabet] : k \in 0..n}

\* The state of the program's variables while one function is called alone
Idle ==
    /\ works_csv = Missing /\ figures_csv = Missing
    /\ works_rows = <<>> /\ fig_rows = <<>>
    /\ works = <<>> /\ works_by_id = <<>> /\ figures = <<>>
    /\ stdout = <<>> /\ stderr = <<>> /\ out_files = <<>> /\ exit_code = None
    /\ SideIdle

Return(fn, value) ==
    /\ pc = "call" /\ call.fn = fn
    /\ pc' = "ret" /\ ret' = value
    /\ UNCHANGED <<works_csv, figures_csv, works_rows, fig_rows, works, works_by_id,
                   figures, stdout, stderr, out_files, exit_code, call, side_vars>>

MaxRawLen == 5
WorkIdAlphabet == {"w", "W", "0", "1", " ", "\n"}

InitWorkId ==
    /\ pc = "call" /\ ret = None /\ Idle
    /\ \E raw \in StringsUpTo(WorkIdAlphabet, MaxRawLen) :
          call = [fn |-> "normalize_work_id", arg |-> raw]

CallNormalizeWorkId == Return("normalize_work_id", normalize_work_id(call.arg))

SpecWorkId == InitWorkId /\ [][CallNormalizeWorkId]_vars

\* The strings parse_int is called on
MaxIntLen == 5
IntAlphabet == {"1", "2", "3", "0", "-", "p", " "}

InitParseInt ==
    /\ pc = "call" /\ ret = None /\ Idle
    /\ \E s \in StringsUpTo(IntAlphabet, MaxIntLen) : call = [fn |-> "parse_int", arg |-> s]

CallParseInt == Return("parse_int", parse_int(call.arg))

SpecParseInt == InitParseInt /\ [][CallParseInt]_vars

\* The ids parse_figure_components is called on: a work part, a page part
\* and a figure part, each in well-formed and ill-formed variants, and what
\* may follow them.
IdWorkParts == {<<"w", "0", "0", "0", "1">>, <<"W", "0", "0", "1", "2">>, <<"w", "0", "0", "1">>,
                <<"w", "0", "0", "0", "0", "1">>, <<"x", "0", "0", "0", "1">>, <<"0", "0", "0", "1">>}
IdPageParts == {<<"-", "p", "0", "0", "3", "8">>, <<"-", "P", "1", "2", "0">>, <<"-", "p", "3", "8">>,
                <<"-", "p", "0", "0", "0", "3", "8">>, <<"-", "0", "0", "3", "8">>,
                <<"_", "p", "0", "3", "8">>}
IdFigureParts == {<<"-", "f", "9", "9">>, <<"-", "F", "0", "1">>, <<"-", "f", "9">>,
                  <<"-", "f", "0", "9", "9">>, <<"-", "f", "a", "1">>}
IdEndings == {<<>>, <<"\n">>, <<"\n", "\n">>, <<" ">>, <<"a">>, <<".", "p", "n", "g">>}
IdBeginnings == {<<>>, <<" ">>, <<"\n">>}
FigureIdInputs ==
    {b \o w \o p \o f \o e : b \in IdBeginnings, w \in IdWorkParts, p \in IdPageParts,
                             f \in IdFigureParts, e \in IdEndings}

InitComponents ==
    /\ pc = "call" /\ ret = None /\ Idle
    /\ \E id \in FigureIdInputs : call = [fn |-> "parse_figure_components", arg |-> id]

CallParseFigureComponents ==
    Return("parse_figure_components", parse_figure_components(call.arg))

SpecComponents == InitComponents /\ [][CallParseFigureComponents]_vars

(***************************************************************************)
(* Claims.                                                                 *)
(***************************************************************************)
\* main has built the works list / the figures list / printed its report
WorksBuilt == pc \in {"build_figures", "report", "write", "done"}
FiguresBuilt == pc \in {"report", "write", "done"}
Reported == pc \in {"write", "done"}

\* C1 as stated: no two records of the list build_works returns have the same
\* workId.
C1_AsStated ==
    WorksBuilt =>
        \A j, k \in DOMAIN works : j # k => works[j].workId # works[k].workId

\* The workId and the title of a works row, and the id of a figures row, as
\* the builders resolve them
C2_WorkId(r) == normalize_work_id(get_first(r, WorkIdKeys))
C2_Title(r) == get_first(r, <<"title">>)
C2_FigureId(r) == normalize_figure_id(get_first(r, <<"figure_id", "id", "figure", "filename">>))
C2_WorkKeys == {<<C2_WorkId(works_csv.rows[k]), C2_Title(works_csv.rows[k])>> : k \in DOMAIN works_csv.rows}
C2_FigureKeys == {C2_FigureId(figures_csv.rows[k]) : k \in DOMAIN figures_csv.rows}

\* C2: once the lists are built, each holds exactly one record per input row
\* whose required fields are not empty (works: normalized workId and title,
\* figures: normalized id), counted per (workId, title) and per id, and holds
\* no other record; and the run goes on to its end with exit code 0.
C2_RowLevelDrop ==
    LET Count(list, Is(_)) == Cardinality({k \in DOMAIN list : Is(list[k])})
    IN  /\ WorksBuilt =>
            /\ \A key \in C2_WorkKeys :
                  LET IsRow(r) == C2_WorkId(r) = key[1] /\ C2_Title(r) = key[2]
                      IsRecord(w) == w.workId = key[1] /\ w.title = key[2]
                  IN  Count(works, IsRecord) =
                          IF key[1] # <<>> /\ key[2] # <<>> THEN Count(works_csv.rows, IsRow) ELSE 0
            /\ \A k \in DOMAIN works : <<works[k].workId, works[k].title>> \in C2_WorkKeys
        /\ FiguresBuilt =>
            /\ \A key \in C2_FigureKeys :
                  LET IsRow(r) == C2_FigureId(r) = key
                      IsRecord(f) == f.id = key
                  IN  Count(figures, IsRecord) =
                          IF key # <<>> THEN Count(figures_csv.rows, IsRow) ELSE 0
            /\ \A k \in DOMAIN figures : figures[k].id \in C2_FigureKeys
        /\ (WorksBuilt \/ FiguresBuilt) => exit_code \in {None, Some(0)}
        /\ pc = "done" => exit_code = Some(0)

\* A run that ended with a dropped and a kept row in each table
C2_Witness ==
    /\ pc = "done"
    /\ Len(works_csv.rows) = 2 /\ Len(works) = 1
    /\ C2_Title(works_csv.rows[1]) = <<>>
    /\ Len(figures_csv.rows) = 2 /\ Len(figures) = 1
    /\ C2_FigureId(figures_csv.rows[1]) = <<>>

\* a <= b on str
C3_Leq(a, b) == ~StrLess(b, a)

\* C3: whatever the order of the input rows, the works list is in ascending
\* order of workId and the figures list in ascending order of id.
C3_Sorted ==
    /\ WorksBuilt =>
        \A k \in 1..(Len(works) - 1) : C3_Leq(works[k].workId, works[k + 1].workId)
    /\ FiguresBuilt =>
        \A k \in 1..(Len(figures) - 1) : C3_Leq(figures[k].id, figures[k + 1].id)

\* Both tables listed their two rows in descending order
C3_Witness ==
    /\ pc = "done"
    /\ Len(works_csv.rows) = 2 /\ Len(works) = 2
    /\ StrLess(C2_WorkId(works_csv.rows[2]), C2_WorkId(works_csv.rows[1]))
    /\ works[1].workId = C2_WorkId(works_csv.rows[2])
    /\ Len(figures_csv.rows) = 2 /\ Len(figures) = 2
    /\ StrLess(C2_FigureId(figures_csv.rows[2]), C2_FigureId(figures_csv.rows[1]))
    /\ figures[1].id = C2_FigureId(figures_csv.rows[2])

\* The lines of main's report of unknown works that name wid
C4_LinesNaming(wid) == {k \in DOMAIN stdout : stdout[k].kind = "unknown_work" /\ stdout[k].a = wid}
C4_Dangling(f) == f.workId # None /\ f.workId[1] \notin DOMAIN works_by_id

\* C4: a figure whose workId is not a key of works_by_id is in the figures
\* list with workYear None (no figures row with an id is left out), main's
\* report of unknown works has exactly one line naming that workId however
\* many figures reference it, and no line of the report names the workId of
\* a record of the works list.  The run ends with exit code 0.
C4_DanglingWork ==
    /\ FiguresBuilt =>
        /\ Len(figures) = Cardinality({k \in DOMAIN figures_csv.rows :
                                                        C2_FigureId(figures_csv.rows[k]) # <<>>})
        /\ \A k \in DOMAIN figures : C4_Dangling(figures[k]) => figures[k].workYear = None
    /\ Reported =>
        /\ \A k \in DOMAIN figures :
              C4_Dangling(figures[k]) => Cardinality(C4_LinesNaming(figures[k].workId[1])) = 1
        /\ \A k \in DOMAIN stdout :
              stdout[k].kind = "unknown_work" =>
                  /\ \A j \in DOMAIN works : works[j].workId # stdout[k].a
                  /\ \E j \in DOMAIN figures : figures[j].workId = Some(stdout[k].a)
    /\ pc = "done" => exit_code = Some(0)

\* Two figures reference the same unknown work, and a third work is listed
C4_Witness ==
    /\ pc = "done"
    /\ Len(figures) = 2 /\ Len(works) > 0
    /\ C4_Dangling(figures[1]) /\ C4_Dangling(figures[2])
    /\ figures[1].workId = figures[2].workId
    /\ Cardinality(C4_LinesNaming(figures[1].workId[1])) = 1

\* The digits of a string of the form w<digits> or <digits>
C5_Digits(s) == IF s # <<>> /\ s[1] = "w" THEN Tail(s) ELSE s
C5_HasForm(s) == C5_Digits(s) # <<>> /\ AllDigits(C5_Digits(s))
\* r is "w" followed by the digits d zero-padded to width 4
C5_Padded(d, r) ==
    /\ Len(r) = 1 + (IF Len(d) < 4 THEN 4 ELSE Len(d))
    /\ r[1] = "w"
    /\ SubSeq(r, Len(r) - Len(d) + 1, Len(r)) = d
    /\ \A k \in 2..(Len(r) - Len(d)) : r[k] = "0"
\* The claim's three cases, for the prepared string s and the result r
C5_Cases(s, r) ==
    IF s = <<>> THEN r = <<>>
    ELSE IF C5_HasForm(s) THEN C5_Padded(C5_Digits(s), r)
    ELSE r = s
C5_NotSpace(c) == ~IsSpace(c)
C5_NotBlank(c) == c # " "
C5_Examples == {<<"1">>, <<"w", "1">>, <<"w", "0", "0", "0", "1">>, <<"W", "0", "0", "1">>}

\* C5 as stated.  "After stripping whitespace and lowercasing" is read either
\* as str.strip() (whitespace at both ends) or as the removal of every
\* whitespace character: normalize_work_id returns "w"+zfill(digits, 4) for
\* the forms w<digits> and <digits>, the prepared string for any other
\* non-empty input, and "" for an empty one.
C5_AsStated ==
    pc = "ret" =>
        \/ C5_Cases(Lower(Strip(call.arg)), ret)
        \/ C5_Cases(Lower(SelectSeq(call.arg, C5_NotSpace)), ret)

\* C5 as amended: the input is prepared by stripping whitespace at both ends,
\* lowercasing and deleting every space character (U+0020), also inside the
\* string; other whitespace inside the string is kept.  Then the three cases
\* hold, and "1", "w1", "w0001", "W001" all give "w0001".
C5_NormalizeWorkId ==
    pc = "ret" =>
        /\ C5_Cases(SelectSeq(Lower(Strip(call.arg)), C5_NotBlank), ret)
        /\ call.arg \in C5_Examples => ret = <<"w", "0", "0", "0", "1">>

C5_Witness ==
    /\ pc = "ret"
    /\ call.arg = <<"W", "0", "0", "1">>
    /\ ret = <<"w", "0", "0", "0", "1">>

\* The figures row of a table of one row, and the record built from it
C6_Raw == get_first(figures_csv.rows[1], <<"figure_id">>)
C6_IsImageExtension(e) == Lower(e) \in {<<".">> \o x : x \in ImageExtensions}
C6_EndsInImageExtension(s) ==
    \E n \in 1..Len(s) : C6_IsImageExtension(SubSeq(s, Len(s) - n + 1, Len(s)))
C6_LowerCase(s) == \A k \in DOMAIN s : ~IsUpper(s[k])

\* C6 as stated: every id in the figures list is lower-case and does not end
\* in .png, .webp, .jpg, .jpeg, .tif or .tiff.
C6_AsStated ==
    FiguresBuilt =>
        \A k \in DOMAIN figures :
            C6_LowerCase(figures[k].id) /\ ~C6_EndsInImageExtension(figures[k].id)

\* C6, amended: every id in the figures list is lower-case and is the trimmed
\* raw id, lower-cased, without its last image-file extension when it ends in
\* one (exactly one extension is removed); so the id ends in an image-file
\* extension exactly when the trimmed raw id ended in two of them, and a raw
\* id that is only an extension gives no record.
C6_NormalizeFigureId ==
    FiguresBuilt =>
        LET t == Strip(C6_Raw)
            Cuts == {n \in 1..Len(t) : C6_IsImageExtension(SubSeq(t, Len(t) - n + 1, Len(t)))}
            stem == IF Cuts = {} THEN t ELSE SubSeq(t, 1, Len(t) - The(Cuts))
        IN  /\ Len(figures) = (IF stem = <<>> THEN 0 ELSE 1)
            /\ \A k \in DOMAIN figures :
                  /\ figures[k].id = Lower(stem)
                  /\ C6_LowerCase(figures[k].id)
                  /\ C6_EndsInImageExtension(figures[k].id) <=>
                        (Cuts # {} /\ C6_EndsInImageExtension(stem))

\* A raw id with two extensions has lost the last one only
C6_Witness ==
    /\ pc = "done" /\ Len(figures) = 1
    /\ C6_Raw = <<"a", ".", "p", "n", "g", ".", "J", "p", "g">>
    /\ figures[1].id = <<"a", ".", "p", "n", "g">>

\* id is exactly w, 4 digits, -p, n digits, -f, 2 digits, in either case
C7_ExactWithPage(id, n) ==
    /\ Len(id) = 11 + n
    /\ id[1] \in {"w", "W"} /\ \A k \in 2..5 : IsDigit(id[k])
    /\ id[6] = "-" /\ id[7] \in {"p", "P"} /\ \A k \in 8..(7 + n) : IsDigit(id[k])
    /\ id[8 + n] = "-" /\ id[9 + n] \in {"f", "F"}
    /\ \A k \in (10 + n)..(11 + n) : IsDigit(id[k])
C7_Exact(id) == C7_ExactWithPage(id, 3) \/ C7_ExactWithPage(id, 4)
\* (w####, page number, figure code) of an id of that form
C7_Parts(id) ==
    <<<<"w">> \o SubSeq(id, 2, 5),
      Some(DigitsValue(SubSeq(id, 8, Len(id) - 4))),
      Some(DigitsValue(SubSeq(id, Len(id) - 1, Len(id))))>>

\* C7 as stated: parse_figure_components matches an id iff it is exactly
\* w + 4 digits + -p + 3 or 4 digits + -f + 2 digits (case-insensitive); on a
\* match it returns (w####, page as an integer, figure code as an integer),
\* and on any other id ("", None, None).
C7_AsStated ==
    pc = "ret" =>
        IF C7_Exact(call.arg) THEN ret = C7_Parts(call.arg)
        ELSE ret = <<<<>>, None, None>>

\* The colors cell of the figures row, and its normalized token list
C8_Raw == get_first(figures_csv.rows[1], <<"colors", "color", "palette">>)
C8_Tokens == [k \in DOMAIN split_csvish(C8_Raw) |-> normalize_color_token(split_csvish(C8_Raw)[k])]
C8_FirstAt(s, x) == CHOOSE k \in DOMAIN s : s[k] = x /\ \A j \in 1..(k - 1) : s[j] # x
C8_NoRepeat(s) == \A j, k \in DOMAIN s : j # k => s[j] # s[k]
\* out is s without its repetitions, in the order of first occurrence
C8_FirstSeen(out, s) ==
    /\ C8_NoRepeat(out)
    /\ Range(out) = Range(s)
    /\ \A j, k \in DOMAIN out : j < k => C8_FirstAt(s, out[j]) < C8_FirstAt(s, out[k])

\* C8: in the record of a figure, if only-black is among the normalized
\* tokens of its colors cell then colors is empty and onlyBlack true;
\* otherwise, if the tokens are not empty and all are black, the same;
\* otherwise colors is the tokens other than black, without repetition and in
\* first-seen order, and onlyBlack is false.  So colors never holds black or
\* a token twice, and onlyBlack implies that colors is empty.
C8_ParseColors ==
    FiguresBuilt =>
        \A f \in Range(figures) :
            LET NotBlack(t) == t # Black
                rest == SelectSeq(C8_Tokens, NotBlack)
            IN  /\ OnlyBlack \in Range(C8_Tokens) => (f.colors = <<>> /\ f.onlyBlack)
                /\ (OnlyBlack \notin Range(C8_Tokens) /\ C8_Tokens # <<>> /\ rest = <<>>) =>
                      (f.colors = <<>> /\ f.onlyBlack)
                /\ (OnlyBlack \notin Range(C8_Tokens) /\ (C8_Tokens = <<>> \/ rest # <<>>)) =>
                      (C8_FirstSeen(f.colors, rest) /\ ~f.onlyBlack)
                /\ Black \notin Range(f.colors)
                /\ C8_NoRepeat(f.colors)
                /\ f.onlyBlack => f.colors = <<>>

\* The spec's example "Red, black, Blue" has been built
C8_Witness ==
    /\ pc = "done" /\ Len(figures) = 1
    /\ C8_Raw = <<"R", "e", "d", ",", " ", "b", "l", "a", "c", "k", ",", " ", "B", "l", "u", "e">>
    /\ figures[1].colors = <<<<"r", "e", "d">>, <<"b", "l", "u", "e">>>>
    /\ ~figures[1].onlyBlack

\* C9 as stated: in every figure record no type occurs twice in types,
\* neither the empty token nor combo occurs in it, and isCombo is true
\* exactly when the figure has more than one type.
C9_AsStated ==
    FiguresBuilt =>
        \A f \in Range(figures) :
            /\ C8_NoRepeat(f.types)
            /\ <<>> \notin Range(f.types) /\ Combo \notin Range(f.types)
            /\ f.isCombo <=> Cardinality(Range(f.types)) > 1

\* The features cell of the figures row, and the lines printed about
\* features
C10_Raw == get_first(figures_csv.rows[1], <<"features">>)
C10_Tokens == [k \in DOMAIN split_csvish(C10_Raw) |-> slugify(split_csvish(C10_Raw)[k])]
C10_FeatureLines ==
    {k \in DOMAIN stdout : stdout[k].kind \in {"multi_type_without_scoped_features", "invalid_scoped_features",
                                               "scoped_type_not_in_types", "missing_scoped_features"}}
C10_Bar == <<"b", "a", "r">>
C10_StackedHorizontal ==
    <<"s", "t", "a", "c", "k", "e", "d", ",", " ", "h", "o", "r", "i", "z", "o", "n", "t", "a", "l">>

\* C10: the record of a figure with exactly one type t has featuresByType =
\* {t: L}, L the slugified non-empty tokens of the features cell split at
\* commas and semicolons, in order, whether or not the cell uses the scoping
\* syntax, and no line about features is printed; type bar with "stacked,
\* horizontal" gives {bar: [stacked, horizontal]}.  The record of a figure
\* without a type has an empty featuresByType.
C10_SingleType ==
    FiguresBuilt =>
        \A f \in Range(figures) :
            /\ Len(f.types) = 1 =>
                  /\ DOMAIN f.featuresByType = {f.types[1]}
                  /\ f.featuresByType[f.types[1]] = SelectSeq(C10_Tokens, NotEmpty)
                  /\ C10_FeatureLines = {}
                  /\ (f.types[1] = C10_Bar /\ C10_Raw = C10_StackedHorizontal) =>
                        f.featuresByType[C10_Bar] =
                            <<<<"s", "t", "a", "c", "k", "e", "d">>,
                              <<"h", "o", "r", "i", "z", "o", "n", "t", "a", "l">>>>
            /\ Len(f.types) = 0 => (DOMAIN f.featuresByType = {} /\ C10_FeatureLines = {})

\* The spec's example has been built, from a types cell that also names combo
C10_Witness ==
    /\ pc = "done" /\ Len(figures) = 1
    /\ figures[1].types = <<C10_Bar>>
    /\ C10_Raw = C10_StackedHorizontal
    /\ Contains(get_first(figures_csv.rows[1], <<"types">>), ",")
    /\ figures[1].featuresByType[C10_Bar] # <<>>

\* The groups of the features cell: its parts between semicolons, trimmed,
\* the empty ones left out; the type a group names and the features it lists
C11_Groups == SelectSeq(StripAll(SplitAll(C10_Raw, ";")), NotEmpty)
C11_Scoped(g) == Contains(g, ":")
C11_Type(g) == slugify(SplitFirst(g, ":")[1])
C11_Features(g) ==
    LET toks == split_csvish(SplitFirst(g, ":")[2])
    IN  SelectSeq([k \in DOMAIN toks |-> slugify(toks[k])], NotEmpty)
C11_Lines(kind, f, a) ==
    {k \in DOMAIN stdout : stdout[k].kind = kind /\ stdout[k].fig = f.id /\ stdout[k].a = a}
C11_Warnings(f) ==
    {k \in DOMAIN stdout : stdout[k].fig = f.id /\ stdout[k].kind \notin {"wrote_works", "wrote_figures"}}

\* C11: in the record of a figure with several types, every key of
\* featuresByType is a declared type and is named by a group "type: features"
\* of the features cell, whose features (those of the last such group) are
\* its value, and every declared type so named is a key; each group naming an
\* undeclared type has a warning line and adds no key; a cell without ":" in
\* any group gives an empty featuresByType and a warning (the line about
\* unscoped features when the cell is not blank); every declared type without
\* an entry has a warning line per occurrence in types, and a type with an
\* entry has none.  Runs with such warnings end with exit code 0.
C11_MultiType ==
    /\ FiguresBuilt =>
        \A f \in Range(figures) :
            Len(f.types) > 1 =>
                LET dict == f.featuresByType
                    Naming(t) == {k \in DOMAIN C11_Groups :
                                    C11_Scoped(C11_Groups[k]) /\ C11_Type(C11_Groups[k]) = t}
                    Last(S) == CHOOSE k \in S : \A j \in S : j <= k
                    unscoped == \A k \in DOMAIN C11_Groups : ~C11_Scoped(C11_Groups[k])
                IN  /\ DOMAIN dict \subseteq Range(f.types)
                    /\ \A t \in DOMAIN dict :
                          Naming(t) # {} /\ dict[t] = C11_Features(C11_Groups[Last(Naming(t))])
                    /\ \A t \in Range(f.types) :
                          (~unscoped /\ Naming(t) # {}) => t \in DOMAIN dict
                    /\ \A k \in DOMAIN C11_Groups :
                          LET g == C11_Groups[k]
                          IN  (~unscoped /\ C11_Scoped(g) /\ C11_Type(g) # <<>>
                                 /\ C11_Type(g) \notin Range(f.types)) =>
                                  /\ C11_Type(g) \notin DOMAIN dict
                                  /\ Cardinality(C11_Lines("scoped_type_not_in_types", f, C11_Type(g)))
                                        = Cardinality(Naming(C11_Type(g)))
                    /\ unscoped =>
                          /\ DOMAIN dict = {}
                          /\ C11_Warnings(f) # {}
                          /\ Cardinality(C11_Lines("multi_type_without_scoped_features", f, <<>>))
                                = (IF Strip(C10_Raw) = <<>> THEN 0 ELSE 1)
                    /\ \A t \in Range(f.types) :
                          Cardinality(C11_Lines("missing_scoped_features", f, t)) =
                              IF t \in DOMAIN dict THEN 0
                              ELSE Cardinality({k \in DOMAIN f.types : f.types[k] = t})
    /\ pc = "done" => exit_code = Some(0)

\* A run has ended whose figure of two types had a cell with a group for one
\* declared type, none for the other, and a group that is not scoped
C11_Witness ==
    /\ pc = "done" /\ exit_code = Some(0) /\ Len(figures) = 1
    /\ figures[1].types = <<C10_Bar, <<"l", "i", "n", "e", "-", "c", "h", "a", "r", "t">>>>
    /\ C10_Raw = <<"s", "t", "a", "c", "k", "e", "d", ";", "b", "a", "r", ":", "x">>
    /\ DOMAIN figures[1].featuresByType = {C10_Bar}
    /\ figures[1].featuresByType[C10_Bar] = <<<<"x">>>>
    /\ C11_Lines("invalid_scoped_features", figures[1], <<"s", "t", "a", "c", "k", "e", "d">>) # {}

\* The places <<i, j>> of the features of record f: feature j of the value
\* of featuresByType under type i of types, when that type is a key
C12_Places(f) ==
    UNION {{<<i, j>> : j \in DOMAIN f.featuresByType[f.types[i]]} :
              i \in {i \in DOMAIN f.types : f.types[i] \in DOMAIN f.featuresByType}}
C12_At(f, p) == f.featuresByType[f.types[p[1]]][p[2]]
C12_Earlier(p, q) == p[1] < q[1] \/ (p[1] = q[1] /\ p[2] < q[2])
C12_First(f, x) ==
    CHOOSE p \in C12_Places(f) :
        C12_At(f, p) = x /\ \A q \in C12_Places(f) : C12_At(f, q) = x => ~C12_Earlier(q, p)

\* C12: in every figure record featuresFlat has no repeated element, its
\* elements are exactly the features listed in featuresByType under some
\* type of types, and they stand in the order of their first places when
\* types is gone through in order and each type's list in order.
C12_FeaturesFlat ==
    FiguresBuilt =>
        \A f \in Range(figures) :
            /\ C8_NoRepeat(f.featuresFlat)
            /\ Range(f.featuresFlat) = {C12_At(f, p) : p \in C12_Places(f)}
            /\ \A j, k \in DOMAIN f.featuresFlat :
                  j < k => C12_Earlier(C12_First(f, f.featuresFlat[j]), C12_First(f, f.featuresFlat[k]))

\* The record of a figure of two types that list a feature twice under one
\* type and a second feature under both
C12_Witness ==
    /\ pc = "done" /\ Len(figures) = 1
    /\ Len(figures[1].types) = 2 /\ DOMAIN figures[1].featuresByType = Range(figures[1].types)
    /\ figures[1].featuresByType[C10_Bar] = <<<<"x">>, <<"y">>, <<"x">>>>
    /\ figures[1].featuresFlat = <<<<"x">>, <<"y">>, <<"z">>>>

\* What the two input tables alone determine as the content of the two files
C13_Works == build_works(read_csv(works_csv.rows))
C13_Output ==
    [works_json |-> Some(C13_Works),
     figures_json |-> Some(build_figures(read_csv(figures_csv.rows), WorksById(C13_Works)).figures)]
\* The folder holds the files of an earlier run in this behaviour
C13_RanBefore == out_files \notin {EmptyFolder, StaleFolder}

\* C13: whenever a run ends with the files written, their content is what
\* the rows of the two input tables determine, whatever the folder held
\* before (nothing, the files of another build, or the files of an earlier
\* run); and the step that writes the files over those of an earlier run on
\* the same inputs leaves their content as it was.
C13_Idempotent ==
    [][/\ pc' = "done" => out_files' = C13_Output
       /\ (pc = "write" /\ C13_RanBefore) => out_files' = out_files]_vars

\* A second run on the same tables is about to write over the files of the
\* first, which hold a work and a figure
C13_Witness ==
    /\ pc = "write" /\ C13_RanBefore
    /\ out_files = C13_Output
    /\ Len(works) = 1 /\ Len(figures) = 1

C14_MissingInput == ~works_csv.exists \/ ~figures_csv.exists
C14_WarningKinds ==
    {"work_mismatch", "multi_type_without_scoped_features", "invalid_scoped_features",
     "scoped_type_not_in_types", "missing_scoped_features", "unknown_work"}
C14_Warned(kind) == \E k \in DOMAIN stdout : stdout[k].kind = kind

\* The steps of a run that found both files, in their order
C14_Steps == <<"start", "build_works", "build_figures", "report", "write", "done">>

\* C14: when an input file is missing, the one step of the run leads from
\* its start to an end with a non-zero exit code and a message, no row is
\* read, and no step changes the output folder; when both exist, every step
\* leads to the next of the build's steps, never to the failing end, the
\* end of the run has both files holding the lists this run built and exit
\* code 0, and no state has another exit code, whatever warnings were
\* printed.
C14_CliOutcome ==
    /\ [](C14_MissingInput =>
            /\ pc \in {"start", "exit"}
            /\ works_rows = <<>> /\ fig_rows = <<>>
            /\ pc = "exit" => (exit_code \notin {None, Some(0)} /\ stderr # <<>>))
    /\ [][C14_MissingInput =>
            /\ out_files' = out_files
            /\ pc = "start" => pc' = "exit"]_vars
    /\ [](~C14_MissingInput =>
            /\ pc # "exit"
            /\ exit_code \in {None, Some(0)}
            /\ pc = "done" =>
                  /\ exit_code = Some(0)
                  /\ out_files = [works_json |-> Some(works), figures_json |-> Some(figures)])
    /\ [][(~C14_MissingInput /\ pc # "done") =>
            \E k \in 1..(Len(C14_Steps) - 1) : pc = C14_Steps[k] /\ pc' = C14_Steps[k + 1]]_vars

\* A run over a folder with the files of another build has ended with exit
\* code 0 and its own files written after three kinds of warnings
C14_Witness ==
    /\ pc = "done" /\ exit_code = Some(0)
    /\ C14_Warned("invalid_scoped_features") /\ C14_Warned("scoped_type_not_in_types")
    /\ C14_Warned("missing_scoped_features")
    /\ out_files = [works_json |-> Some(works), figures_json |-> Some(figures)]
    /\ Len(figures) = 1

\* The decomposition of the id of record f, and the cells of its row
C15_FromId(f) == parse_figure_components(f.id)
C15_WorkCol == normalize_work_id(get_first(figures_csv.rows[1], <<"work_id", "work", "workid">>))
C15_PageCol == parse_int(get_first(figures_csv.rows[1], <<"page", "page_number">>))
C15_CodeCol == parse_int(get_first(figures_csv.rows[1], <<"figure_code", "fig_code", "f">>))
C15_Mismatches(f) == {k \in DOMAIN stdout : stdout[k].kind = "work_mismatch" /\ stdout[k].fig = f.id}
C15_Example == <<"w", "0", "0", "0", "1", "-", "p", "0", "0", "3", "8", "-", "f", "9", "9">>

\* C15: in the record of a figure whose id decomposes, workId, page and
\* figureCode are the decomposed values whatever the columns hold
\* ("w0001-p0038-f99" gives w0001, 38, 99); otherwise they are the normalized
\* work column, the page column and the code column, each None when empty.
\* Exactly when the id decomposes and the normalized work column is not empty
\* and differs from the decomposed work id, one line about the mismatch is
\* printed for the figure, and it shows both values.
C15_Resolution ==
    FiguresBuilt =>
        \A f \in Range(figures) :
            LET dec == C15_FromId(f)
                decomposes == dec # <<<<>>, None, None>>
                differ == decomposes /\ C15_WorkCol # <<>> /\ dec[1] # C15_WorkCol
            IN  /\ decomposes =>
                      /\ dec[1] # <<>> /\ dec[2] # None /\ dec[3] # None
                      /\ f.workId = Some(dec[1]) /\ f.page = dec[2] /\ f.figureCode = dec[3]
                /\ f.id = C15_Example =>
                      /\ f.workId = Some(<<"w", "0", "0", "0", "1">>)
                      /\ f.page = Some(38) /\ f.figureCode = Some(99)
                /\ ~decomposes =>
                      /\ f.workId = (IF C15_WorkCol = <<>> THEN None ELSE Some(C15_WorkCol))
                      /\ f.page = C15_PageCol /\ f.figureCode = C15_CodeCol
                /\ Cardinality(C15_Mismatches(f)) = (IF differ THEN 1 ELSE 0)
                /\ \A k \in C15_Mismatches(f) : stdout[k].a = dec[1] /\ stdout[k].b = C15_WorkCol

\* The example id next to a work column naming another work and a page
\* column naming another page
C15_Witness ==
    /\ pc = "done" /\ Len(figures) = 1
    /\ figures[1].id = C15_Example
    /\ C15_WorkCol = <<"w", "0", "0", "0", "2">> /\ C15_PageCol = Some(7)
    /\ figures[1].workId = Some(<<"w", "0", "0", "0", "1">>) /\ figures[1].page = Some(38)
    /\ Cardinality(C15_Mismatches(figures[1])) = 1

\* The number a string of digits denotes
C16_Number(d) ==
    LET upto[k \in 0..Len(d)] == IF k = 0 THEN 0 ELSE 10 * upto[k - 1] + DigitVal(d[k])
    IN  upto[Len(d)]
C16_IsDigitOrMinus(c) == IsDigit(c) \/ c = "-"
C16_Digits(s) == SelectSeq(s, IsDigit)
\* What is left of s when only the digits and a minus sign at the head are
\* kept: a minus sign that is the first character of the trimmed string, or
\* one that stands before every digit
C16_SignFirst(s) == Strip(s) # <<>> /\ Strip(s)[1] = "-"
C16_SignBeforeDigits(s) ==
    \E k \in DOMAIN s : s[k] = "-" /\ \A j \in 1..(k - 1) : ~IsDigit(s[j])
C16_Result(negative, s) ==
    IF C16_Digits(s) = <<>> THEN None
    ELSE IF negative THEN Some(0 - C16_Number(C16_Digits(s)))
    ELSE Some(C16_Number(C16_Digits(s)))

\* C16 as stated: parse_int returns None when no digit or leading minus sign
\* is left, and otherwise the integer that the digits and the leading minus
\* sign denote ("12-13" gives 1213), under either reading of "leading".
C16_AsStated ==
    pc = "ret" =>
        \/ ret = C16_Result(C16_SignFirst(call.arg), call.arg)
        \/ ret = C16_Result(C16_SignBeforeDigits(call.arg), call.arg)

\* C16, amended: parse_int trims the string and removes every character
\* except digits and minus signs, wherever they stand; it returns None when
\* nothing is left or when what is left is not digits with at most one minus
\* sign, at the head ("12-13", "3-", "-"), and otherwise the integer that
\* denotes; the result is always an integer or None.
C16_ParseInt ==
    pc = "ret" =>
        LET left == SelectSeq(Strip(call.arg), C16_IsDigitOrMinus)
            digits == C16_Digits(left)
            plain == left # <<>> /\ left = digits
            signed == Len(left) > 1 /\ left = <<"-">> \o digits
        IN  /\ ret = (IF plain THEN Some(C16_Number(digits))
                      ELSE IF signed THEN Some(0 - C16_Number(digits))
                      ELSE None)
            /\ ret = None \/ (Len(ret) = 1 /\ ret[1] \in Int)

\* "12-13" has given None
C16_Witness ==
    /\ pc = "ret" /\ call.arg = <<"1", "2", "-", "1", "3">>
    /\ ret = None

\* The keys of the side file, and the ids of the listed figures that have
\* an image
C17_Keys(file) == DOMAIN load_existing(file)
C17_WithImage ==
    IF out_files.figures_json = None THEN {}
    ELSE {out_files.figures_json[1][k].id : k \in DOMAIN out_files.figures_json[1]} \cap images
\* The step runs the external tool for figure id
C17_Invokes(id) == invoked' = Append(invoked, id)

\* C17: in a run without --force no step runs the external tool for an id
\* that is a key of the side file, and every step leaves each key of the
\* file in the file with its value; in every run, forced or not, a step
\* never takes the file or one of its keys away; a run that visited every
\* figure and ended leaves the id of every figure that has an image a key
\* of the file, and with the file so, no step of a run without --force
\* runs the tool or changes the file.
C17_IdempotentPerKey ==
    /\ [][~call.arg.force =>
            /\ \A id \in C17_Keys(side_file) :
                  /\ ~C17_Invokes(id)
                  /\ id \in C17_Keys(side_file')
                  /\ load_existing(side_file')[id] = load_existing(side_file)[id]]_vars
    /\ [][/\ C17_Keys(side_file) \subseteq C17_Keys(side_file')
          /\ side_file # None => side_file' # None]_vars
    /\ []((pc = "done" /\ todo = <<>>) => C17_WithImage \subseteq C17_Keys(side_file))
    /\ [][(~call.arg.force /\ C17_WithImage \subseteq C17_Keys(side_file)) =>
            /\ side_file' = side_file
            /\ \A id \in SideIds : ~C17_Invokes(id)]_vars

\* A run without --force has ended: the tool was run for b alone, a and
\* the key of an unlisted figure have their old texts, b has its new one
C17_Witness ==
    /\ pc = "done" /\ ~call.arg.force /\ todo = <<>>
    /\ invoked = << <<"b">> >>
    /\ C17_Keys(side_file) = {<<"a">>, <<"b">>, OtherId}
    /\ side_file[1][<<"a">>] = OldText /\ side_file[1][OtherId] = OldText
    /\ side_file[1][<<"b">>] = <<"x", " ", "y", "\n", "\n", "z">>

=============================================================================
